---- MODULE Spec2Model ----
(***************************************************************************)
(* Valuation, trade-evaluation and asset-pricing engine of TradeAnalyzer   *)
(* (src/app.py, src/sleeper_api.py).                                       *)
(*                                                                         *)
(* The engine is a collection of pure functions.  Each function is an      *)
(* operator that computes what the Python computes; each specification     *)
(* draws the arguments of one or two calls in Init and its actions make    *)
(* the calls, storing what they return.                                    *)
(*                                                                         *)
(* Numbers.  Python floats are modelled exactly where the quantities stay  *)
(* small: a rational is a pair <<numerator, denominator>> with a positive  *)
(* denominator.  Player values and pick prices are fixed-point integers in *)
(* units of 1/100 point; a pick price is exact in that unit, a player      *)
(* value is rounded down to it after each multiplication by a factor.      *)
(* A Python str is the sequence of its characters.                         *)
(***************************************************************************)
EXTENDS Integers, Sequences, FiniteSets, TLC

VARIABLES
    args,   \* the arguments of the calls of the current run
    ret,    \* what the calls made so far have returned
    pc      \* number of calls already made

vars == <<args, ret, pc>>

----------------------------------------------------------------------------
(* Exact rational arithmetic on pairs <<n, d>>, d > 0.                     *)

RInt(n) == <<n, 1>>
RLe(a, b) == a[1] * b[2] <= b[1] * a[2]
RLt(a, b) == a[1] * b[2] < b[1] * a[2]
REq(a, b) == a[1] * b[2] = b[1] * a[2]
RMax(a, b) == IF RLt(a, b) THEN b ELSE a
RMin(a, b) == IF RLt(b, a) THEN b ELSE a
RMul(a, b) == <<a[1] * b[1], a[2] * b[2]>>

(* An Optional[float]: None, or the rational num/den.                      *)
None == [some |-> FALSE, num |-> 0, den |-> 1]
Some(n, d) == [some |-> TRUE, num |-> n, den |-> d]

----------------------------------------------------------------------------
(* calculate_dynasty_adp_value                                             *)

\* every position the providers send, and one the tables do not know
Positions == {"QB", "RB", "WR", "TE", "K", "DEF", "DL", "LB", "DB", "UNK"}

\* undrafted_values.get(position, 200)
undrafted_values(position) ==
    CASE position = "QB" -> 400
      [] position = "RB" -> 300
      [] position = "WR" -> 350
      [] position = "TE" -> 250
      [] position = "K"  -> 200
      [] position = "DL" -> 250
      [] position = "LB" -> 300
      [] position = "DB" -> 250
      [] OTHER -> 200

\* mutant: the floor of the band is forgotten
TierBand_NoFloor(lo, hi, base_value) == RMin(RInt(hi), base_value)

\* max(lo, min(hi, base_value))
TierBand(lo, hi, base_value) == RMax(RInt(lo), RMin(RInt(hi), base_value))

\* mutant: the bands of the two lowest tiers are exchanged
calculate_dynasty_adp_value_SwappedBands(adp, position, is_superflex) ==
    IF ~adp.some \/ adp.num <= 0
    THEN RInt(undrafted_values(position))
    ELSE LET r == <<adp.num, adp.den>>
             base_value == <<20000 * adp.den, adp.num>>
             value == IF RLe(r, RInt(24)) THEN TierBand(8000, 20000, base_value)
                      ELSE IF RLe(r, RInt(60)) THEN TierBand(3000, 8000, base_value)
                      ELSE IF RLe(r, RInt(120)) THEN TierBand(300, 1500, base_value)
                      ELSE TierBand(1500, 3000, base_value)
         IN  IF is_superflex /\ position = "QB"
             THEN RMul(value, <<3, 2>>)
             ELSE value

\* mutant: the superflex factor is applied whatever the position
calculate_dynasty_adp_value_AnyPosition(adp, position, is_superflex) ==
    IF ~adp.some \/ adp.num <= 0
    THEN RInt(undrafted_values(position))
    ELSE LET r == <<adp.num, adp.den>>
             base_value == <<20000 * adp.den, adp.num>>
             value == IF RLe(r, RInt(24)) THEN TierBand(8000, 20000, base_value)
                      ELSE IF RLe(r, RInt(60)) THEN TierBand(3000, 8000, base_value)
                      ELSE IF RLe(r, RInt(120)) THEN TierBand(1500, 3000, base_value)
                      ELSE TierBand(300, 1500, base_value)
         IN  IF is_superflex
             THEN RMul(value, <<3, 2>>)
             ELSE value

calculate_dynasty_adp_value(adp, position, is_superflex) ==
    IF ~adp.some \/ adp.num <= 0
    THEN RInt(undrafted_values(position))
    ELSE LET r == <<adp.num, adp.den>>
             base_value == <<20000 * adp.den, adp.num>>
             value == IF RLe(r, RInt(24)) THEN TierBand(8000, 20000, base_value)
                      ELSE IF RLe(r, RInt(60)) THEN TierBand(3000, 8000, base_value)
                      ELSE IF RLe(r, RInt(120)) THEN TierBand(1500, 3000, base_value)
                      ELSE TierBand(300, 1500, base_value)
         IN  IF is_superflex /\ position = "QB"
             THEN RMul(value, <<3, 2>>)
             ELSE value

----------------------------------------------------------------------------
(* Specification SpecAdp: two calls of calculate_dynasty_adp_value for the *)
(* same position, each with its own rank and league format.                *)

MaxAdpNum == 125   \* largest numerator of a market rank
MaxAdpDen == 2     \* ranks are the fractions n/d, d in 1..MaxAdpDen

AdpInputs(d) == {None} \cup {Some(n, d) : n \in 0..MaxAdpNum}

\* the second call's rank is never the better one of the two, and it is a
\* superflex call only if the first one is
InitAdp ==
    /\ pc = 0
    /\ \E position \in Positions, d \in 1..MaxAdpDen :
       \E a \in AdpInputs(d), b \in AdpInputs(d), sfa \in BOOLEAN, sfb \in BOOLEAN :
          /\ a.some /\ b.some => a.num <= b.num
          /\ sfb => sfa
          /\ args = [position |-> position,
                     adp |-> <<a, b>>, is_superflex |-> <<sfa, sfb>>]
    /\ ret = <<RInt(0), RInt(0)>>

\* the (pc+1)-th call
DynastyAdpValue ==
    /\ pc < 2
    /\ ret' = [ret EXCEPT ![pc + 1] =
                 calculate_dynasty_adp_value(args.adp[pc + 1], args.position,
                                             args.is_superflex[pc + 1])]
    /\ pc' = pc + 1
    /\ UNCHANGED args

NextAdp == DynastyAdpValue

SpecAdp == InitAdp /\ [][NextAdp]_vars

\* the rank of call i as a rational, and whether it counts as drafted
Rank(i) == <<args.adp[i].num, args.adp[i].den>>
Drafted(i) == args.adp[i].some /\ args.adp[i].num > 0
RawAdpValue(i) == <<20000 * args.adp[i].den, args.adp[i].num>>
PlainFormat(i) == ~(args.is_superflex[i] /\ args.position = "QB")

\* ret[i] is v clamped into [lo, hi]
ClampedInto(i, v, lo, hi) ==
    /\ RLe(RInt(lo), ret[i]) /\ RLe(ret[i], RInt(hi))
    /\ RLe(RInt(lo), v) /\ RLe(v, RInt(hi)) => REq(ret[i], v)
    /\ RLt(v, RInt(lo)) => REq(ret[i], RInt(lo))
    /\ RLt(RInt(hi), v) => REq(ret[i], RInt(hi))

InTierBand(i) ==
    /\ RLe(Rank(i), RInt(24)) => ClampedInto(i, RawAdpValue(i), 8000, 20000)
    /\ RLt(RInt(24), Rank(i)) /\ RLe(Rank(i), RInt(60))
          => ClampedInto(i, RawAdpValue(i), 3000, 8000)
    /\ RLt(RInt(60), Rank(i)) /\ RLe(Rank(i), RInt(120))
          => ClampedInto(i, RawAdpValue(i), 1500, 3000)
    /\ RLt(RInt(120), Rank(i)) => ClampedInto(i, RawAdpValue(i), 300, 1500)

\* C5: a drafted player outside the superflex-QB case is worth 20000/rank
\* clamped into the band of the rank's tier; an undrafted one (rank absent
\* or not positive) is worth a floor in [200, 500] that depends on the
\* position only.
C5_TierBands ==
    /\ \A i \in 1..pc :
          /\ Drafted(i) /\ PlainFormat(i) => InTierBand(i)
          /\ ~Drafted(i) => RLe(RInt(200), ret[i]) /\ RLe(ret[i], RInt(500))
    /\ pc = 2 /\ ~Drafted(1) /\ ~Drafted(2) => REq(ret[1], ret[2])

C5_Witness ==
    /\ pc = 2 /\ args.position = "RB"
    /\ args.adp[1] = Some(3, 2) /\ REq(ret[1], <<40000, 3>>)
    /\ args.adp[2] = Some(50, 2) /\ REq(ret[2], RInt(3000))

\* C6: for one position and one league format the value never rises with
\* the rank, and the ranks on the two sides of a tier boundary are worth
\* different amounts, the better rank more.
C6_MonotoneInRank ==
    pc = 2 /\ Drafted(1) /\ Drafted(2)
       /\ args.is_superflex[1] = args.is_superflex[2]
    => /\ RLe(Rank(1), Rank(2)) => RLe(ret[2], ret[1])
       /\ \A edge \in {24, 60, 120} :
             REq(Rank(1), RInt(edge)) /\ REq(Rank(2), RInt(edge + 1))
                => RLt(ret[2], ret[1])

C6_Witness ==
    /\ pc = 2 /\ args.position = "WR" /\ ~args.is_superflex[1] /\ ~args.is_superflex[2]
    /\ args.adp[1] = Some(120, 1) /\ args.adp[2] = Some(121, 1)
    /\ REq(ret[1], RInt(1500)) /\ REq(ret[2], RInt(300))

SameRank == args.adp[1] = args.adp[2]
OnlyFirstSuperflex == args.is_superflex[1] /\ ~args.is_superflex[2]

----------------------------------------------------------------------------
(* calculate_vorp                                                          *)

\* POSITION_BASELINES.get(position, 24)
POSITION_BASELINES(position) ==
    CASE position \in {"QB", "TE", "K", "DEF"} -> 12
      [] position \in {"RB", "DL", "DB"} -> 24
      [] position \in {"WR", "LB"} -> 30
      [] OTHER -> 24

\* mutant: the difference is returned without the floor at zero
calculate_vorp_NoFloor(player_points, position, position_rankings) ==
    LET baseline == POSITION_BASELINES(position)
        replacement_value ==
            IF position \in DOMAIN position_rankings
            THEN LET rankings == position_rankings[position]
                 IN  IF Len(rankings) >= baseline
                     THEN rankings[baseline]
                     ELSE IF rankings # <<>> THEN rankings[Len(rankings)] ELSE 0
            ELSE 0
    IN  player_points - replacement_value

\* rankings[baseline - 1] and rankings[-1] of the 0-based Python list are
\* rankings[baseline] and rankings[Len(rankings)] of the 1-based sequence
calculate_vorp(player_points, position, position_rankings) ==
    LET baseline == POSITION_BASELINES(position)
        replacement_value ==
            IF position \in DOMAIN position_rankings
            THEN LET rankings == position_rankings[position]
                 IN  IF Len(rankings) >= baseline
                     THEN rankings[baseline]
                     ELSE IF rankings # <<>> THEN rankings[Len(rankings)] ELSE 0
            ELSE 0
        diff == player_points - replacement_value
    IN  IF diff > 0 THEN diff ELSE 0

----------------------------------------------------------------------------
(* Specification SpecVorp: one call of calculate_vorp.  The list of a      *)
(* position is sorted descending, as main builds it: a run of players at   *)
(* each value level, highest level first.                                  *)

MaxRun == 11   \* largest number of players sharing one value

\* AdjustedValue levels, highest first; values are not clamped at zero
ValueLevels == <<9000, 2500, -60>>

Repeat(v, n) == [i \in 1..n |-> v]

SortedValues(c) ==
    Repeat(ValueLevels[1], c[1]) \o Repeat(ValueLevels[2], c[2])
        \o Repeat(ValueLevels[3], c[3])

InitVorp ==
    /\ pc = 0
    /\ \E position \in Positions, listed \in BOOLEAN,
          c \in [1..3 -> 0..MaxRun], player_points \in {-60, 0, 2500, 5000, 9000} :
          args = [player_points |-> player_points,
                  position |-> position,
                  position_rankings |->
                      IF listed THEN [q \in {position} |-> SortedValues(c)]
                                ELSE [q \in {} |-> <<>>]]
    /\ ret = 0

Vorp ==
    /\ pc = 0
    /\ ret' = calculate_vorp(args.player_points, args.position,
                             args.position_rankings)
    /\ pc' = 1
    /\ UNCHANGED args

NextVorp == Vorp

SpecVorp == InitVorp /\ [][NextVorp]_vars

Listed == args.position \in DOMAIN args.position_rankings
TheList == args.position_rankings[args.position]
Min(a, b) == IF a < b THEN a ELSE b

\* v is the value ranked k-th in the descending list s: fewer than k
\* players are worth more than v, at least k are worth v or more
RankedAt(s, k, v) ==
    /\ Cardinality({i \in 1..Len(s) : s[i] > v}) < k
    /\ Cardinality({i \in 1..Len(s) : s[i] >= v}) >= k

\* the replacement value the claim describes
IsReplacement(v) ==
    IF Listed /\ TheList # <<>>
    THEN /\ \E i \in 1..Len(TheList) : TheList[i] = v
         /\ RankedAt(TheList, Min(POSITION_BASELINES(args.position), Len(TheList)), v)
    ELSE v = 0

\* C2: VORP is max(0, value - replacement) and so never negative, the
\* replacement being the value at the baseline rank of the position, the
\* lowest value of a shorter list, and 0 without players or without a list.
C2_VorpFloor ==
    pc = 1 =>
       /\ ret >= 0
       /\ \E v \in {0} \cup {ValueLevels[k] : k \in 1..3} :
             /\ IsReplacement(v)
             /\ ret >= args.player_points - v
             /\ ret = 0 \/ ret = args.player_points - v

C2_Witness ==
    /\ pc = 1 /\ Listed /\ args.position = "WR"
    /\ Len(TheList) = 33 /\ TheList[30] = -60 /\ TheList[22] = 2500
    /\ args.player_points = 2500 /\ ret = 2560

----------------------------------------------------------------------------
(* calculate_enhanced_value and adjust_value_for_league_scoring.           *)
(* Values are integers in units of 1/100 point.  A factor is a rational;   *)
(* a product with a factor is rounded down to the unit, which keeps the    *)
(* sign of the value.                                                      *)

\* floor(x * n / d), computed without forming x * n
Scale(x, factor) ==
    (x \div factor[2]) * factor[1] + ((x % factor[2]) * factor[1]) \div factor[2]

\* mutant: the prime years last one year longer
calculate_age_adjustment_LongPrime(age) ==
    IF age < 25 THEN <<1, 1>>
    ELSE IF age < 29 THEN <<105, 100>>
    ELSE IF age < 30 THEN <<1, 1>>
    ELSE IF age < 32 THEN <<90, 100>>
    ELSE <<80, 100>>

calculate_age_adjustment(age) ==
    IF age < 25 THEN <<1, 1>>
    ELSE IF age < 28 THEN <<105, 100>>
    ELSE IF age < 30 THEN <<1, 1>>
    ELSE IF age < 32 THEN <<90, 100>>
    ELSE <<80, 100>>

calculate_injury_adjustment(injury_status) ==
    IF injury_status \in {"Healthy", "Probable"} THEN <<1, 1>>
    ELSE IF injury_status \in {"Questionable", "Doubtful"} THEN <<85, 100>>
    ELSE <<60, 100>>

\* team_factor: offense_rank is None when the team is not in team_stats
team_factor(offense_rank) ==
    IF ~offense_rank.some THEN <<1, 1>>
    ELSE IF offense_rank.num <= 10 THEN <<105, 100>>
    ELSE IF offense_rank.num >= 23 THEN <<95, 100>>
    ELSE <<1, 1>>

\* player_data: Position, FantasyPointsPPR; player_details: Age (None when
\* the key is missing, then 27), InjuryStatus; historical_avg in points.
\* The result is adjusted_value, in 1/100 point.
calculate_enhanced_value(player_data, player_details, offense_rank, historical_avg, dynasty_adp, is_superflex) ==
    LET base_projection == player_data.FantasyPointsPPR
        position == player_data.Position
        dynasty_value == calculate_dynasty_adp_value(dynasty_adp, position, is_superflex)
        dynasty_component == Scale(100 * dynasty_value[1], <<60, 100 * dynasty_value[2]>>)
        projection_scaled == 100 * base_projection * 15
        projection_component == Scale(projection_scaled, <<30, 100>>)
        historical_scaled == 100 * historical_avg * 15
        historical_component == Scale(historical_scaled, <<10, 100>>)
        age == IF player_details.Age.some THEN player_details.Age.num ELSE 27
        age_factor == calculate_age_adjustment(age)
        injury_factor == calculate_injury_adjustment(player_details.InjuryStatus)
        pre_adjustment_value ==
            dynasty_component + projection_component + historical_component
    IN  Scale(Scale(Scale(pre_adjustment_value, team_factor(offense_rank)),
                    age_factor), injury_factor)

\* league_details: kind "none" (None or {}), "bare" (no scoring_settings)
\* or "scoring"; pass_td, sack, tkl in points, rec and bonus_rec_te in half
\* points
adjust_value_for_league_scoring(base_value, position, league_details) ==
    IF league_details.kind # "scoring" THEN base_value
    ELSE LET scoring == league_details.scoring_settings
             m_qb == IF position # "QB" THEN <<1, 1>>
                     ELSE IF scoring.pass_td = 6 THEN <<115, 100>>
                     ELSE IF scoring.pass_td > 4 THEN <<10 + (scoring.pass_td - 4), 10>>
                     ELSE <<1, 1>>
             m_rec == IF position \notin {"WR", "TE"} THEN <<1, 1>>
                      ELSE IF scoring.rec = 2 THEN <<110, 100>>
                      ELSE IF scoring.rec = 1 THEN <<105, 100>>
                      ELSE <<1, 1>>
             m_te == IF position = "TE" /\ scoring.bonus_rec_te > 0
                     THEN <<40 + scoring.bonus_rec_te, 40>>
                     ELSE <<1, 1>>
             m_sack == IF position \in {"DL", "LB", "DB"} /\ scoring.sack >= 2
                       THEN <<105, 100>> ELSE <<1, 1>>
             m_tkl == IF position \in {"DL", "LB", "DB"} /\ scoring.tkl >= 1
                      THEN <<108, 100>> ELSE <<1, 1>>
             multiplier == RMul(RMul(RMul(RMul(m_qb, m_rec), m_te), m_sack), m_tkl)
         IN  Scale(base_value, multiplier)

----------------------------------------------------------------------------
(* Specification SpecValue: the valuation of one player record as main     *)
(* does it: calculate_enhanced_value, then the league-scoring adjustment   *)
(* when league details are available.                                      *)

ProjectionStep == 40      \* projection and historical points are multiples
MaxProjectionSteps == 2   \* of ProjectionStep, up to this many steps from 0

PointInputs == {ProjectionStep * k : k \in -MaxProjectionSteps..MaxProjectionSteps}

ScoringInputs ==
    { [pass_td |-> 4, rec |-> 0, bonus_rec_te |-> 0, sack |-> 0, tkl |-> 0],
      [pass_td |-> 5, rec |-> 1, bonus_rec_te |-> 2, sack |-> 1, tkl |-> 0],
      [pass_td |-> 6, rec |-> 2, bonus_rec_te |-> 1, sack |-> 2, tkl |-> 1] }

LeagueInputs ==
    { [kind |-> "none", scoring_settings |-> sc] : sc \in {CHOOSE x \in ScoringInputs : x.pass_td = 4} }
    \cup { [kind |-> k, scoring_settings |-> sc] : k \in {"scoring"}, sc \in ScoringInputs }
    \cup { [kind |-> "bare", scoring_settings |-> sc] : sc \in {CHOOSE x \in ScoringInputs : x.pass_td = 4} }

InitValue ==
    /\ pc = 0
    /\ \E position \in Positions, points \in PointInputs,
          historical_avg \in {-ProjectionStep, 0, ProjectionStep},
          age \in {None, Some(22, 1), Some(29, 1), Some(31, 1), Some(35, 1)},
          injury \in {"Healthy", "Doubtful", "IR"},
          offense_rank \in {None, Some(5, 1), Some(30, 1)},
          dynasty_adp \in {None, Some(1, 1), Some(25, 1), Some(121, 1)},
          is_superflex \in BOOLEAN, league_details \in LeagueInputs :
          args = [player_data |-> [Position |-> position, FantasyPointsPPR |-> points],
                  player_details |-> [Age |-> age, InjuryStatus |-> injury],
                  offense_rank |-> offense_rank,
                  historical_avg |-> historical_avg,
                  dynasty_adp |-> dynasty_adp,
                  is_superflex |-> is_superflex,
                  league_details |-> league_details]
    /\ ret = 0

EnhancedValue ==
    /\ pc = 0
    /\ ret' = calculate_enhanced_value(args.player_data, args.player_details,
                   args.offense_rank, args.historical_avg, args.dynasty_adp,
                   args.is_superflex)
    /\ pc' = 1
    /\ UNCHANGED args

\* if league_details: adjusted_value = adjust_value_for_league_scoring(...)
LeagueScoring ==
    /\ pc = 1
    /\ ret' = IF args.league_details.kind # "none"
              THEN adjust_value_for_league_scoring(ret, args.player_data.Position,
                                                   args.league_details)
              ELSE ret
    /\ pc' = 2
    /\ UNCHANGED args

NextValue == EnhancedValue \/ LeagueScoring

SpecValue == InitValue /\ [][NextValue]_vars

\* C1: the value of a player record, before and after the league-scoring
\* adjustment, is never negative.
C1_ValueNonNegative == pc >= 1 => ret >= 0

----------------------------------------------------------------------------
(* Specification SpecAge: calculate_age_adjustment on two ages, the first  *)
(* not above the second.                                                   *)

MaxAge == 45   \* oldest age

InitAge ==
    /\ pc = 0
    /\ \E a \in -1..MaxAge, b \in -1..MaxAge : a <= b /\ args = [age |-> <<a, b>>]
    /\ ret = <<>>

AgeAdjustment ==
    /\ pc < 2
    /\ ret' = Append(ret, calculate_age_adjustment(args.age[pc + 1]))
    /\ pc' = pc + 1
    /\ UNCHANGED args

NextAge == AgeAdjustment

SpecAge == InitAge /\ [][NextAge]_vars

\* the factor the table gives an age, in hundredths
TabulatedAgeFactor(age) ==
    IF age < 25 THEN 100 ELSE IF age < 28 THEN 105 ELSE IF age < 30 THEN 100
    ELSE IF age < 32 THEN 90 ELSE 80

\* C23: every integer age has a factor, the one of the table (1.00 below
\* 25, 1.05 from 25, 1.00 from 28, 0.90 from 30, 0.80 from 32), and from 25
\* upward the factor never rises with age.
C23_AgeFactorTable ==
    /\ \A i \in 1..pc : REq(ret[i], <<TabulatedAgeFactor(args.age[i]), 100>>)
    /\ pc = 2 /\ args.age[1] >= 25 => RLe(ret[2], ret[1])

C23_Witness ==
    pc = 2 /\ args.age = <<27, 28>> /\ REq(ret[1], <<105, 100>>) /\ REq(ret[2], <<1, 1>>)

----------------------------------------------------------------------------
(* Strings and the two regular expressions of get_pick_value.              *)

DigitChars == <<"0", "1", "2", "3", "4", "5", "6", "7", "8", "9">>
UpperChars == <<"A", "B", "C", "D", "E", "F", "G", "H", "I", "J", "K", "L", "M",
                "N", "O", "P", "Q", "R", "S", "T", "U", "V", "W", "X", "Y", "Z">>
LowerChars == <<"a", "b", "c", "d", "e", "f", "g", "h", "i", "j", "k", "l", "m",
                "n", "o", "p", "q", "r", "s", "t", "u", "v", "w", "x", "y", "z">>

IsDigit(c) == \E k \in 1..10 : DigitChars[k] = c
IsSpace(c) == c \in {" ", "\t"}
\* int(c) for a digit c
IntOf(c) == (CHOOSE k \in 1..10 : DigitChars[k] = c) - 1
\* str.lower()
lower(s) ==
    [i \in 1..Len(s) |->
        IF \E k \in 1..26 : UpperChars[k] = s[i]
        THEN LowerChars[CHOOSE k \in 1..26 : UpperChars[k] = s[i]]
        ELSE s[i]]
\* w in s
Contains(s, w) ==
    \E i \in 1..(Len(s) - Len(w) + 1) : SubSeq(s, i, i + Len(w) - 1) = w
\* str.strip()
strip(s) ==
    LET keep == {i \in 1..Len(s) : ~IsSpace(s[i])}
    IN  IF keep = {} THEN <<>>
        ELSE SubSeq(s, CHOOSE i \in keep : \A j \in keep : i <= j,
                       CHOOSE i \in keep : \A j \in keep : j <= i)
\* str.split(','): the pieces between consecutive commas
split(s) ==
    LET commas == {i \in 1..Len(s) : s[i] = ","}
        n == Cardinality(commas)
        comma(k) == IF k = 0 THEN 0
                    ELSE IF k = n + 1 THEN Len(s) + 1
                    ELSE CHOOSE i \in commas : Cardinality({j \in commas : j <= i}) = k
    IN  [k \in 1..(n + 1) |-> SubSeq(s, comma(k - 1) + 1, comma(k) - 1)]

\* the first position from j on that holds no whitespace (\s* is greedy
\* and is followed by \d, so it ends exactly there)
AfterSpaces(s, j) ==
    CHOOSE k \in j..(Len(s) + 1) :
        /\ \A m \in j..(k - 1) : IsSpace(s[m])
        /\ k = Len(s) + 1 \/ ~IsSpace(s[k])

FourDigitsAt(s, i) == i + 3 <= Len(s) /\ \A m \in i..(i + 3) : IsDigit(s[m])

\* (\d{4})\s*(\d)\.(\d{1,2}) matches at position i
SlotMatchAt(s, i) ==
    /\ FourDigitsAt(s, i)
    /\ LET k == AfterSpaces(s, i + 4)
       IN  k + 2 <= Len(s) /\ IsDigit(s[k]) /\ s[k + 1] = "." /\ IsDigit(s[k + 2])

\* (\d{4})\s*(\d)(?:st|nd|rd|th)? matches at position i
GeneralMatchAt(s, i) ==
    /\ FourDigitsAt(s, i)
    /\ LET k == AfterSpaces(s, i + 4) IN k <= Len(s) /\ IsDigit(s[k])

\* re.search: the leftmost position of a match, 0 when there is none
Leftmost(hits) ==
    IF hits = {} THEN 0 ELSE CHOOSE i \in hits : \A j \in hits : i <= j
SearchSlot(s) == Leftmost({i \in 1..Len(s) : SlotMatchAt(s, i)})
SearchGeneral(s) == Leftmost({i \in 1..Len(s) : GeneralMatchAt(s, i)})

----------------------------------------------------------------------------
(* get_pick_value and parse_pick_input                                     *)

first_round_2026_1qb ==
    <<9500, 8500, 8000, 7500, 7200, 6800, 6400, 6000, 5600, 5200, 4800, 4400>>
second_round_2026_1qb ==
    <<4000, 3700, 3400, 3100, 2800, 2600, 2400, 2200, 2000, 1800, 1600, 1400>>
\* mutant: pick 3.01 is entered as 1500, above pick 2.12
third_round_2026_1qb_Typo ==
    <<1500, 1100, 1000, 900, 800, 700, 600, 550, 500, 450, 400, 350>>
third_round_2026_1qb ==
    <<1200, 1100, 1000, 900, 800, 700, 600, 550, 500, 450, 400, 350>>
fourth_round_2026_1qb == 250

\* year_discounts.get(year, 0.50), in percent
year_discounts(year) ==
    CASE year = <<"2", "0", "2", "6">> -> 100
      [] year = <<"2", "0", "2", "7">> -> 70
      [] year = <<"2", "0", "2", "8">> -> 55
      [] year = <<"2", "0", "2", "9">> -> 45
      [] OTHER -> 50

\* sf_multiplier, in percent
sf_multiplier(is_superflex) == IF is_superflex THEN 110 ELSE 100

\* base_value * discount * sf_multiplier, in 1/100 point (exact: every
\* base value is a multiple of 50)
final_value(base_value, discount, is_superflex) ==
    (base_value * discount * sf_multiplier(is_superflex)) \div 100

\* base value of an exact slot
slot_base_value(round_num, slot) ==
    IF round_num = 1 /\ 1 <= slot /\ slot <= 12 THEN first_round_2026_1qb[slot]
    ELSE IF round_num = 2 /\ 1 <= slot /\ slot <= 12 THEN second_round_2026_1qb[slot]
    ELSE IF round_num = 3 /\ 1 <= slot /\ slot <= 12 THEN third_round_2026_1qb[slot]
    ELSE IF round_num = 4 THEN fourth_round_2026_1qb
    ELSE 100

\* base value of the representative slot of a bucket
bucket_base_value(round_num, slot) ==
    IF round_num = 1 THEN first_round_2026_1qb[slot]
    ELSE IF round_num = 2 THEN second_round_2026_1qb[slot]
    ELSE IF round_num = 3 THEN third_round_2026_1qb[slot]
    ELSE fourth_round_2026_1qb

\* f"{slot:02d}"
TwoDigits(n) ==
    IF n < 10 THEN <<"0", DigitChars[n + 1]>>
    ELSE <<DigitChars[(n \div 10) + 1], DigitChars[(n % 10) + 1]>>

\* ['st','nd','rd','th'][min(round_num-1,3)]; index -1 is the last entry
round_suffix(round_num) ==
    CASE round_num = 1 -> <<"s", "t">>
      [] round_num = 2 -> <<"n", "d">>
      [] round_num = 3 -> <<"r", "d">>
      [] OTHER -> <<"t", "h">>

\* get_pick_value after pick_description = pick_description.strip();
\* returns <<value, parsed_description>>
price_description(pick_description, is_superflex) ==
    LET slot_match == SearchSlot(pick_description)
        general_match == SearchGeneral(pick_description)
    IN  IF slot_match # 0
        THEN LET year == SubSeq(pick_description, slot_match, slot_match + 3)
                 k == AfterSpaces(pick_description, slot_match + 4)
                 round_num == IntOf(pick_description[k])
                 two == k + 3 <= Len(pick_description) /\ IsDigit(pick_description[k + 3])
                 slot == IF two THEN 10 * IntOf(pick_description[k + 2])
                                      + IntOf(pick_description[k + 3])
                         ELSE IntOf(pick_description[k + 2])
                 discount == year_discounts(year)
             IN  << final_value(slot_base_value(round_num, slot), discount, is_superflex),
                    year \o <<" ", DigitChars[round_num + 1], ".">> \o TwoDigits(slot) >>
        ELSE IF general_match # 0
        THEN LET year == SubSeq(pick_description, general_match, general_match + 3)
                 k == AfterSpaces(pick_description, general_match + 4)
                 round_num == IntOf(pick_description[k])
                 discount == year_discounts(year)
                 desc_lower == lower(pick_description)
                 early == Contains(desc_lower, <<"e", "a", "r", "l", "y">>)
                          \/ Contains(desc_lower, <<"t", "o", "p">>)
                 late == Contains(desc_lower, <<"l", "a", "t", "e">>)
                         \/ Contains(desc_lower, <<"b", "o", "t", "t", "o", "m">>)
                 slot_modifier == IF early THEN <<"E", "a", "r", "l", "y">>
                                  ELSE IF late THEN <<"L", "a", "t", "e">>
                                  ELSE <<"M", "i", "d">>
                 base_value == IF early THEN bucket_base_value(round_num, 3)
                               ELSE IF late THEN bucket_base_value(round_num, 10)
                               ELSE bucket_base_value(round_num, 6)
             IN  << final_value(base_value, discount, is_superflex),
                    year \o <<" ", DigitChars[round_num + 1]>> \o round_suffix(round_num)
                         \o <<" ", "(">> \o slot_modifier \o <<")">> >>
        ELSE <<0, pick_description>>

get_pick_value(pick_description, is_superflex) ==
    CHOOSE priced \in {price_description(stripped, is_superflex) :
                          stripped \in {strip(pick_description)}} : TRUE

\* value, parsed = get_pick_value(pick_desc, is_superflex) as the dict
\* {'description', 'parsed', 'value'}
priced_pick(pick_desc, is_superflex) ==
    CHOOSE pick \in {[description |-> pick_desc, parsed |-> priced[2],
                      value |-> priced[1]] :
                        priced \in {get_pick_value(pick_desc, is_superflex)}} : TRUE

\* the loop of parse_pick_input: the descriptions priced above 0
priced_picks(pick_list, is_superflex) ==
    SelectSeq([i \in 1..Len(pick_list) |-> priced_pick(pick_list[i], is_superflex)],
              LAMBDA pick : pick.value > 0)

parse_pick_input(pick_string, is_superflex) ==
    IF pick_string = <<>> \/ strip(pick_string) = <<>> THEN <<>>
    ELSE CHOOSE picks \in
            {priced_picks(pick_list, is_superflex) :
                pick_list \in {SelectSeq([i \in 1..Len(parts) |-> strip(parts[i])],
                                         LAMBDA q : q # <<>>) :
                                  parts \in {split(pick_string)}}} : TRUE

----------------------------------------------------------------------------
(* Specification SpecPick: two pick descriptions are priced one after the  *)
(* other by get_pick_value, then the two of them, joined by a comma, go    *)
(* through parse_pick_input.  A description is written the way             *)
(* build_pick_options and the docstring of get_pick_value write it, or is  *)
(* free text that names no season and round.  The two descriptions are of  *)
(* the same season, the first one listed first in ShapeOrder, or are the   *)
(* same pick in two seasons.                                               *)

MaxYear == 2030    \* seasons 2026..MaxYear
MaxRound == 5      \* rounds 1..MaxRound

YearStr(y) ==
    <<DigitChars[(y \div 1000) + 1], DigitChars[((y \div 100) % 10) + 1],
      DigitChars[((y \div 10) % 10) + 1], DigitChars[(y % 10) + 1]>>

TimingStr(timing) ==
    CASE timing = "Early" -> <<"E", "a", "r", "l", "y">>
      [] timing = "Mid" -> <<"M", "i", "d">>
      [] timing = "Late" -> <<"L", "a", "t", "e">>
      [] OTHER -> <<>>

\* f"{year} {round_num}.{slot:02d}"
ExactDesc(y, r, slot) ==
    YearStr(y) \o <<" ", DigitChars[r + 1], ".">> \o TwoDigits(slot)

\* "2026 1st (Early)", "2026 2nd"
GeneralDesc(y, r, timing) ==
    YearStr(y) \o <<" ", DigitChars[r + 1]>> \o round_suffix(r)
        \o (IF timing = "" THEN <<>> ELSE <<" ", "(">> \o TimingStr(timing) \o <<")">>)

\* f"{year} {timing} {round_suffix}"
OptionDesc(y, r, timing) ==
    YearStr(y) \o <<" ">> \o TimingStr(timing) \o <<" ", DigitChars[r + 1]>>
        \o round_suffix(r)

\* free text without a season followed by a round
FreeText ==
    << <<>>,
       <<"1", "s", "t">>,
       <<"2", "0", "2", "6">>,
       <<"n", "e", "x", "t", " ", "1", "s", "t", " ", "e", "a", "r", "l", "y">> >>

PickShapes ==
    [form : {"slot"}, round : 1..MaxRound, slot : 1..12, timing : {""}]
    \cup [form : {"general"}, round : 1..MaxRound, slot : {0}, timing : {"", "Early", "Mid", "Late"}]
    \cup [form : {"option"}, round : 1..MaxRound, slot : {0}, timing : {"Early", "Mid", "Late"}]
    \cup [form : {"text"}, round : {0}, slot : 1..Len(FreeText), timing : {""}]

Describe(y, shape) ==
    CASE shape.form = "slot" -> ExactDesc(y, shape.round, shape.slot)
      [] shape.form = "general" -> GeneralDesc(y, shape.round, shape.timing)
      [] shape.form = "option" -> OptionDesc(y, shape.round, shape.timing)
      [] OTHER -> FreeText[shape.slot]

\* exact slots in draft order, then the other forms
ShapeOrder(shape) ==
    (CASE shape.form = "slot" -> 0
       [] shape.form = "general" -> 1000
       [] shape.form = "option" -> 2000
       [] OTHER -> 3000)
    + 100 * shape.round + 4 * shape.slot
    + (CASE shape.timing = "Early" -> 1
         [] shape.timing = "Mid" -> 2
         [] shape.timing = "Late" -> 3
         [] OTHER -> 0)

PickArgs(y1, s1, y2, s2, is_superflex) ==
    [is_superflex |-> is_superflex,
     year |-> <<y1, y2>>,
     shape |-> <<s1, s2>>,
     pick_description |-> <<Describe(y1, s1), Describe(y2, s2)>>]

InitPick ==
    /\ pc = 0
    /\ \/ \E y \in 2026..MaxYear, s1 \in PickShapes, is_superflex \in BOOLEAN :
          \E s2 \in {s \in PickShapes : ShapeOrder(s1) <= ShapeOrder(s)} :
             args = PickArgs(y, s1, y, s2, is_superflex)
       \/ \E y1 \in 2026..MaxYear, s \in PickShapes, is_superflex \in BOOLEAN :
          \E y2 \in (y1 + 1)..MaxYear :
             args = PickArgs(y1, s, y2, s, is_superflex)
    /\ ret = [priced |-> << <<0, <<>>>>, <<0, <<>>>> >>, picks |-> <<>>]

\* the (pc+1)-th call of get_pick_value
PickValue ==
    /\ pc < 2
    /\ ret' = [ret EXCEPT !.priced[pc + 1] =
                 get_pick_value(args.pick_description[pc + 1], args.is_superflex)]
    /\ pc' = pc + 1
    /\ UNCHANGED args

\* the trade form's pick field: both descriptions, comma-separated
ParsePickInput ==
    /\ pc = 2
    /\ \E pick_string \in {args.pick_description[1] \o <<",", " ">>
                                \o args.pick_description[2]} :
          ret' = [ret EXCEPT !.picks = parse_pick_input(pick_string, args.is_superflex)]
    /\ pc' = 3
    /\ UNCHANGED args

NextPick == PickValue \/ ParsePickInput

SpecPick == InitPick /\ [][NextPick]_vars

Priced(i) == ret.priced[i][1]
SameSeason == args.year[1] = args.year[2]
IsSlot(i) == args.shape[i].form = "slot"
IsText(i) == args.shape[i].form = "text"
\* pick 1 is an exact slot drafted before the exact slot pick 2
DraftedBefore ==
    /\ IsSlot(1) /\ IsSlot(2)
    /\ \/ args.shape[1].round < args.shape[2].round
       \/ /\ args.shape[1].round = args.shape[2].round
          /\ args.shape[1].slot < args.shape[2].slot

C9_YearDiscount ==
    pc >= 2 /\ args.shape[1] = args.shape[2] /\ args.year[1] < args.year[2]
       => Priced(2) <= Priced(1)

IsFlatForm(i) == args.shape[i].form \in {"slot", "general"}

\* C24: within a season and a league format every pick of round 4 or
\* later has the same price, whatever its round, its slot, and whether it
\* is written as an exact slot or as season and round.
C24_FlatFromRound4 ==
    (pc >= 2 /\ SameSeason /\ IsFlatForm(1) /\ IsFlatForm(2)
        /\ args.shape[1].round >= 4 /\ args.shape[2].round >= 4)
       => Priced(1) = Priced(2)

\* the slot that stands for a bucket word, the 6th without one
BucketSlot(timing) ==
    CASE timing = "Early" -> 3 [] timing = "Late" -> 10 [] OTHER -> 6

\* C27: in rounds 1-3 a description of season, round and Early, Mid or
\* Late, in either word order, is priced as the 3rd, 6th or 10th slot of
\* that round and season, and one with no bucket word as the 6th slot.
C27_BucketAsSlot ==
    \A i \in 1..2 :
       (pc >= i /\ args.shape[i].form \in {"general", "option"} /\ args.shape[i].round <= 3)
          => Priced(i) = get_pick_value(ExactDesc(args.year[i], args.shape[i].round,
                                                  BucketSlot(args.shape[i].timing)),
                                        args.is_superflex)[1]

----------------------------------------------------------------------------
(* calculate_faab_value, in points for an amount in dollars                *)

\* mutant: the second tier is 75 dollars wide instead of 50
calculate_faab_value_WideTier(faab_amount) ==
    IF faab_amount <= 0 THEN 0
    ELSE LET tier1 == Min(faab_amount, 25)
             remaining1 == faab_amount - tier1
             tier2 == IF remaining1 > 0 THEN Min(remaining1, 75) ELSE 0
             remaining2 == remaining1 - tier2
             tier3 == IF remaining2 > 0 THEN Min(remaining2, 75) ELSE 0
             remaining3 == remaining2 - tier3
             tier4 == IF remaining3 > 0 THEN Min(remaining3, 150) ELSE 0
         IN  tier1 * 8 + tier2 * 12 + tier3 * 15 + tier4 * 18

calculate_faab_value(faab_amount) ==
    IF faab_amount <= 0 THEN 0
    ELSE LET tier1 == Min(faab_amount, 25)
             remaining1 == faab_amount - tier1
             tier2 == IF remaining1 > 0 THEN Min(remaining1, 50) ELSE 0
             remaining2 == remaining1 - tier2
             tier3 == IF remaining2 > 0 THEN Min(remaining2, 75) ELSE 0
             remaining3 == remaining2 - tier3
             tier4 == IF remaining3 > 0 THEN Min(remaining3, 150) ELSE 0
         IN  tier1 * 8 + tier2 * 12 + tier3 * 15 + tier4 * 18

----------------------------------------------------------------------------
(* Specification SpecFaab: calculate_faab_value on two amounts, the first  *)
(* not above the second.                                                   *)

MaxFaab == 303   \* largest amount, in dollars

InitFaab ==
    /\ pc = 0
    /\ \E a \in -2..MaxFaab, b \in -2..MaxFaab :
          a <= b /\ args = [faab_amount |-> <<a, b>>]
    /\ ret = <<0, 0>>

FaabValue ==
    /\ pc < 2
    /\ ret' = [ret EXCEPT ![pc + 1] = calculate_faab_value(args.faab_amount[pc + 1])]
    /\ pc' = pc + 1
    /\ UNCHANGED args

NextFaab == FaabValue

SpecFaab == InitFaab /\ [][NextFaab]_vars

\* points per dollar of the tier that holds the given dollar
TierRate(dollar) ==
    IF dollar <= 25 THEN 8 ELSE IF dollar <= 75 THEN 12
    ELSE IF dollar <= 150 THEN 15 ELSE 18

\* C10: the FAAB value never falls as the amount grows, is 0 up to $0,
\* stays at the value of $300 from there on, and between $0 and $300 each
\* dollar adds the rate of its tier (8, 12, 15, 18), which never decreases
\* from a dollar to the next.
C10_FaabTiers ==
    /\ \A i \in 1..pc : args.faab_amount[i] <= 0 => ret[i] = 0
    /\ pc = 2 =>
          LET a == args.faab_amount[1]
              b == args.faab_amount[2]
          IN  /\ ret[1] <= ret[2]
              /\ a >= 300 => ret[1] = ret[2]
              /\ a >= 0 /\ b = a + 1 /\ b <= 300
                    => /\ ret[2] - ret[1] = TierRate(b)
                       /\ b > 1 => TierRate(a) <= ret[2] - ret[1]

C10_Witness ==
    pc = 2 /\ args.faab_amount = <<150, 151>> /\ ret = <<1925, 1943>>

\* C26: the function reproduces the examples of its docstring: $25 gives
\* 200 points, $50 gives 500, $100 gives 950 and $200 gives 2,050.
C26_DocumentedExamples ==
    \A i \in 1..pc :
       /\ args.faab_amount[i] = 25 => ret[i] = 200
       /\ args.faab_amount[i] = 50 => ret[i] = 500
       /\ args.faab_amount[i] = 100 => ret[i] = 950
       /\ args.faab_amount[i] = 200 => ret[i] = 2050

----------------------------------------------------------------------------
(* evaluate_manual_trade.  Players and picks are dicts with a 'value' in   *)
(* 1/100 point; the FAAB amounts are dollars.  The verdict strings are     *)
(* those of the source without their emoji prefix.                         *)

RAbs(a) == IF a[1] < 0 THEN <<-a[1], a[2]>> ELSE a

\* mutant: only the first asset of a list is counted
SumValues_FirstOnly(assets) == IF assets = <<>> THEN 0 ELSE Head(assets).value

\* sum(p['value'] for p in assets)
RECURSIVE SumValues(_)
SumValues(assets) ==
    IF assets = <<>> THEN 0 ELSE Head(assets).value + SumValues(Tail(assets))

\* mutant: "Great for You" only above 15 percent
evaluate_manual_trade_Great15(give_players, receive_players, give_picks, receive_picks, give_faab, receive_faab) ==
    LET give_player_total == SumValues(give_players)
        receive_player_total == SumValues(receive_players)
        give_pick_total == SumValues(give_picks)
        receive_pick_total == SumValues(receive_picks)
        give_faab_value == 100 * calculate_faab_value(give_faab)
        receive_faab_value == 100 * calculate_faab_value(receive_faab)
        give_total == give_player_total + give_pick_total + give_faab_value
        receive_total == receive_player_total + receive_pick_total + receive_faab_value
        difference == receive_total - give_total
        percentage_diff == IF give_total > 0 THEN <<difference * 100, give_total>>
                           ELSE <<0, 1>>
        verdict == IF RLt(RAbs(percentage_diff), RInt(5)) THEN "Fair Trade"
                   ELSE IF RLt(RInt(15), percentage_diff) THEN "Great for You"
                   ELSE IF RLt(percentage_diff, RInt(-10)) THEN "Unfavorable"
                   ELSE "Slightly Imbalanced"
    IN  [verdict |-> verdict,
         give_player_total |-> give_player_total,
         give_pick_total |-> give_pick_total,
         give_faab |-> give_faab,
         give_faab_value |-> give_faab_value,
         give_total |-> give_total,
         receive_player_total |-> receive_player_total,
         receive_pick_total |-> receive_pick_total,
         receive_faab |-> receive_faab,
         receive_faab_value |-> receive_faab_value,
         receive_total |-> receive_total,
         difference |-> difference,
         percentage_diff |-> percentage_diff,
         give_picks |-> give_picks,
         receive_picks |-> receive_picks]

evaluate_manual_trade(give_players, receive_players, give_picks, receive_picks, give_faab, receive_faab) ==
    LET give_player_total == SumValues(give_players)
        receive_player_total == SumValues(receive_players)
        give_pick_total == SumValues(give_picks)
        receive_pick_total == SumValues(receive_picks)
        give_faab_value == 100 * calculate_faab_value(give_faab)
        receive_faab_value == 100 * calculate_faab_value(receive_faab)
        give_total == give_player_total + give_pick_total + give_faab_value
        receive_total == receive_player_total + receive_pick_total + receive_faab_value
        difference == receive_total - give_total
        percentage_diff == IF give_total > 0 THEN <<difference * 100, give_total>>
                           ELSE <<0, 1>>
        verdict == IF RLt(RAbs(percentage_diff), RInt(5)) THEN "Fair Trade"
                   ELSE IF RLt(RInt(10), percentage_diff) THEN "Great for You"
                   ELSE IF RLt(percentage_diff, RInt(-10)) THEN "Unfavorable"
                   ELSE "Slightly Imbalanced"
    IN  [verdict |-> verdict,
         give_player_total |-> give_player_total,
         give_pick_total |-> give_pick_total,
         give_faab |-> give_faab,
         give_faab_value |-> give_faab_value,
         give_total |-> give_total,
         receive_player_total |-> receive_player_total,
         receive_pick_total |-> receive_pick_total,
         receive_faab |-> receive_faab,
         receive_faab_value |-> receive_faab_value,
         receive_total |-> receive_total,
         difference |-> difference,
         percentage_diff |-> percentage_diff,
         give_picks |-> give_picks,
         receive_picks |-> receive_picks]

----------------------------------------------------------------------------
(* Specification SpecTrade: a trade form (up to MaxPlayers players for at  *)
(* most one, picks and FAAB on both sides) is evaluated as entered and     *)
(* then with its two sides exchanged.  Player values are AdjustedValue     *)
(* figures (not clamped at zero by the valuation); the pick lists come out *)
(* of parse_pick_input.                                                    *)

MaxPlayers == 2    \* players on the give side

TradeValues ==
    {-6000, 9000, 9500, 9800, 10000, 10500, 11000, 11100, 500000, 510000}

PlayerLists(n) ==
    UNION {[1..m -> [value : TradeValues]] : m \in 0..n}

PickInputs == {<<>>, ExactDesc(2029, 3, 12)}

InitTrade ==
    /\ pc = 0
    /\ \E give_players \in PlayerLists(MaxPlayers), receive_players \in PlayerLists(1),
          give_pick_input \in PickInputs, receive_pick_input \in PickInputs,
          give_faab \in {0, 25}, receive_faab \in {0, 25} :
          args = [give_players |-> give_players,
                  receive_players |-> receive_players,
                  give_picks |-> parse_pick_input(give_pick_input, FALSE),
                  receive_picks |-> parse_pick_input(receive_pick_input, FALSE),
                  give_faab |-> give_faab,
                  receive_faab |-> receive_faab]
    /\ ret = <<>>

EvaluateTrade ==
    /\ pc = 0
    /\ ret' = <<evaluate_manual_trade(args.give_players, args.receive_players,
                     args.give_picks, args.receive_picks,
                     args.give_faab, args.receive_faab)>>
    /\ pc' = 1
    /\ UNCHANGED args

EvaluateSwapped ==
    /\ pc = 1
    /\ ret' = Append(ret, evaluate_manual_trade(args.receive_players, args.give_players,
                              args.receive_picks, args.give_picks,
                              args.receive_faab, args.give_faab))
    /\ pc' = 2
    /\ UNCHANGED args

NextTrade == EvaluateTrade \/ EvaluateSwapped

SpecTrade == InitTrade /\ [][NextTrade]_vars

\* the percentage the claim prescribes for the totals of an evaluation
ClaimedPct(e) ==
    IF e.give_total = 0 THEN <<0, 1>>
    ELSE IF e.give_total > 0 THEN <<100 * e.difference, e.give_total>>
    ELSE <<-100 * e.difference, -e.give_total>>

\* equality of two percentages that are 0 or have the same denominator
SamePct(p, q) ==
    IF p[1] = 0 \/ q[1] = 0 THEN p[1] = q[1]
    ELSE p[2] = q[2] /\ p[1] = q[1]

VerdictFor(pct) ==
    IF RLt(RAbs(pct), RInt(5)) THEN "Fair Trade"
    ELSE IF RLt(RInt(10), pct) THEN "Great for You"
    ELSE IF RLt(pct, RInt(-10)) THEN "Unfavorable"
    ELSE "Slightly Imbalanced"

\* C3 as claimed: for all side totals difference = receive - give, the
\* percentage is difference / give * 100 (0 when give is 0), and the
\* verdict follows the thresholds 5 and 10 on that percentage.
C3_Claimed ==
    \A i \in 1..pc :
       /\ ret[i].difference = ret[i].receive_total - ret[i].give_total
       /\ SamePct(ret[i].percentage_diff, ClaimedPct(ret[i]))
       /\ ret[i].verdict = VerdictFor(ClaimedPct(ret[i]))

PositiveTotals == ret[1].give_total > 0 /\ ret[1].receive_total > 0

\* C4 as claimed, on baskets of positive total value: the differences of
\* the two directions are additive inverses, Fair and Slightly Imbalanced
\* are kept under the exchange of sides, and Unfavorable in one direction
\* goes with Great for You in the other.
C4_Claimed ==
    pc = 2 /\ PositiveTotals =>
       /\ ret[2].difference = -ret[1].difference
       /\ ret[1].verdict = "Fair Trade" <=> ret[2].verdict = "Fair Trade"
       /\ ret[1].verdict = "Slightly Imbalanced" <=> ret[2].verdict = "Slightly Imbalanced"
       /\ ret[1].verdict = "Unfavorable" <=> ret[2].verdict = "Great for You"
       /\ ret[2].verdict = "Unfavorable" <=> ret[1].verdict = "Great for You"

\* one direction of the amended C4; give is evaluation e, f the exchanged one
SwapConsistent(e, f) ==
    /\ e.verdict = "Unfavorable" =>
          IF f.give_total > 0 THEN f.verdict = "Great for You"
                              ELSE f.verdict = "Fair Trade"
    /\ e.verdict = "Fair Trade" /\ e.give_total > 0 =>
          f.verdict \in {"Fair Trade", "Slightly Imbalanced"}
    /\ e.verdict = "Great for You" /\ f.give_total > 0 =>
          f.verdict \in {"Slightly Imbalanced", "Unfavorable"}

\* C4 amended: the differences of the two directions are additive
\* inverses; Unfavorable in one direction goes with Great for You in the
\* other when the other side gives a positive total (Fair, at 0 percent,
\* when it does not); Fair on a positive give total goes with Fair or
\* Slightly Imbalanced; Great for You goes with Slightly Imbalanced or
\* Unfavorable when the other side gives a positive total.
C4_SwapSides ==
    pc = 2 =>
       /\ ret[2].difference = -ret[1].difference
       /\ SwapConsistent(ret[1], ret[2])
       /\ SwapConsistent(ret[2], ret[1])

C4_Witness ==
    /\ pc = 2
    /\ ret[1].give_total = 10500 /\ ret[1].receive_total = 9000
    /\ ret[1].verdict = "Unfavorable" /\ ret[2].verdict = "Great for You"

\* the value of a list of assets, added up from its last entry
RECURSIVE AssetsTotal(_)
AssetsTotal(assets) ==
    IF assets = <<>> THEN 0
    ELSE AssetsTotal(SubSeq(assets, 1, Len(assets) - 1)) + assets[Len(assets)].value

\* the proposal behind evaluation i: the form as entered, then exchanged
ProposalOf(i) ==
    IF i = 1 THEN args
    ELSE [give_players |-> args.receive_players, receive_players |-> args.give_players,
          give_picks |-> args.receive_picks, receive_picks |-> args.give_picks,
          give_faab |-> args.receive_faab, receive_faab |-> args.give_faab]

\* C22: no asset is created or lost: each side's total is the sum of its
\* players' values, its picks' values and the FAAB value of its cash, the
\* subtotals of a side add up to its total, and the pick lists and FAAB
\* amounts of the result are those passed in.
C22_AssetsConserved ==
    \A i \in 1..pc :
       /\ ret[i].give_player_total = AssetsTotal(ProposalOf(i).give_players)
       /\ ret[i].give_pick_total = AssetsTotal(ProposalOf(i).give_picks)
       /\ ret[i].give_faab_value = 100 * calculate_faab_value(ProposalOf(i).give_faab)
       /\ ret[i].receive_player_total = AssetsTotal(ProposalOf(i).receive_players)
       /\ ret[i].receive_pick_total = AssetsTotal(ProposalOf(i).receive_picks)
       /\ ret[i].receive_faab_value = 100 * calculate_faab_value(ProposalOf(i).receive_faab)
       /\ ret[i].give_total
             = ret[i].give_player_total + ret[i].give_pick_total + ret[i].give_faab_value
       /\ ret[i].receive_total
             = ret[i].receive_player_total + ret[i].receive_pick_total
                  + ret[i].receive_faab_value
       /\ ret[i].give_picks = ProposalOf(i).give_picks
       /\ ret[i].receive_picks = ProposalOf(i).receive_picks
       /\ ret[i].give_faab = ProposalOf(i).give_faab
       /\ ret[i].receive_faab = ProposalOf(i).receive_faab

\* two players, a pick and $25 given for one player
C22_Witness ==
    /\ pc = 2
    /\ Len(args.give_players) = 2 /\ Len(args.give_picks) = 1 /\ args.give_faab = 25
    /\ Len(args.receive_players) = 1 /\ args.receive_picks = <<>> /\ args.receive_faab = 0
    /\ args.give_players[1].value = 9000 /\ args.give_players[2].value = 9500
    /\ ret[1].give_player_total = 18500 /\ ret[1].give_faab_value = 20000
    /\ ret[1].give_pick_total > 0
    /\ ret[1].give_total = 38500 + ret[1].give_pick_total
    /\ ret[2].receive_total = ret[1].give_total

----------------------------------------------------------------------------
(* analyze_roster_needs.  A roster DataFrame is the sequence of its rows,  *)
(* each a record with Name, Position, AdjustedValue (whole points) and     *)
(* Age.  A mean is the rational <<sum, count>>; the mean of no rows, NaN,  *)
(* is <<0, 0>>, which RLt and RLe compare as Python compares NaN: never    *)
(* below and never above a number.                                         *)

\* the positions of the loop, in the order of the loop
AnalyzedPositions == <<"QB", "RB", "WR", "TE", "DL", "LB", "DB">>

\* roster_df[roster_df['Position'] == pos]
RowsAt(roster_df, pos) == SelectSeq(roster_df, LAMBDA row : row.Position = pos)

\* roster_df['AdjustedValue'].sum()
RECURSIVE SumAdjustedValue(_)
SumAdjustedValue(roster_df) ==
    IF roster_df = <<>> THEN 0
    ELSE Head(roster_df).AdjustedValue + SumAdjustedValue(Tail(roster_df))

\* roster_df['Age'].sum(), the numerator of the mean
RECURSIVE SumAge(_)
SumAge(roster_df) ==
    IF roster_df = <<>> THEN 0 ELSE Head(roster_df).Age + SumAge(Tail(roster_df))

\* mutant: the QB count of a one-QB league is asked of every league
ideal_count_NoSuperflex(pos, is_superflex) ==
    CASE pos = "QB" -> 2
      [] pos = "RB" -> 5
      [] pos = "WR" -> 6
      [] pos = "TE" -> 3
      [] OTHER -> 4

ideal_count(pos, is_superflex) ==
    CASE pos = "QB" -> IF is_superflex THEN 3 ELSE 2
      [] pos = "RB" -> 5
      [] pos = "WR" -> 6
      [] pos = "TE" -> 3
      [] OTHER -> 4

min_value(pos, is_superflex) ==
    CASE pos = "QB" -> IF is_superflex THEN 8000 ELSE 5000
      [] pos = "RB" -> 12000
      [] pos = "WR" -> 15000
      [] pos = "TE" -> 4000
      [] OTHER -> 3000

\* the dict appended to needs for a position of given count and total
need_of(pos, count, total_value, is_superflex) ==
    IF count < ideal_count(pos, is_superflex) \/ total_value < min_value(pos, is_superflex)
    THEN <<[position |-> pos,
            count |-> count,
            ideal |-> ideal_count(pos, is_superflex),
            total_value |-> total_value,
            strength |-> <<total_value, min_value(pos, is_superflex)>>,
            priority |-> IF RLt(<<total_value, min_value(pos, is_superflex)>>, <<3, 5>>)
                         THEN "High" ELSE "Medium"]>>
    ELSE <<>>

\* the dict appended to surpluses for a position of given count and total
surplus_of(pos, count, total_value, is_superflex) ==
    IF count > ideal_count(pos, is_superflex) + 2
    THEN <<[position |-> pos,
            count |-> count,
            excess |-> count - ideal_count(pos, is_superflex),
            avg_value |-> <<total_value, count>>]>>
    ELSE <<>>

\* what one iteration of the loop appends to needs; the rows of the
\* position and their total are computed once
need_entry(roster_df, pos, is_superflex) ==
    CHOOSE e \in UNION {{need_of(pos, Len(rows), total_value, is_superflex) :
                            total_value \in {SumAdjustedValue(rows)}} :
                        rows \in {RowsAt(roster_df, pos)}} : TRUE

\* what one iteration of the loop appends to surpluses
surplus_entry(roster_df, pos, is_superflex) ==
    CHOOSE e \in UNION {{surplus_of(pos, Len(rows), total_value, is_superflex) :
                            total_value \in {SumAdjustedValue(rows)}} :
                        rows \in {RowsAt(roster_df, pos)}} : TRUE

\* needs.sort(key=lambda x: x['strength']): stable, ascending
sort_needs(needs) ==
    LET n == Len(needs)
        before(j, i) == \/ RLt(needs[j].strength, needs[i].strength)
                        \/ REq(needs[j].strength, needs[i].strength) /\ j < i
        place(i) == Cardinality({j \in 1..n : before(j, i)}) + 1
    IN  [k \in 1..n |-> needs[CHOOSE i \in 1..n : place(i) = k]]

\* surpluses.sort(key=lambda x: x['count'], reverse=True): stable, descending
sort_surpluses(surpluses) ==
    LET n == Len(surpluses)
        before(j, i) == \/ surpluses[j].count > surpluses[i].count
                        \/ surpluses[j].count = surpluses[i].count /\ j < i
        place(i) == Cardinality({j \in 1..n : before(j, i)}) + 1
    IN  [k \in 1..n |-> surpluses[CHOOSE i \in 1..n : place(i) = k]]

\* the strategy label of an average age
strategy_label(avg_age) ==
    IF RLt(<<27, 1>>, avg_age)
    THEN "Win-Now (Aging roster - prioritize proven players)"
    ELSE IF RLt(avg_age, <<25, 1>>)
    THEN "Rebuild (Young roster - target picks and prospects)"
    ELSE "Balanced (Mixed roster - target value)"

\* the loop over the seven positions, then the two sorts
RECURSIVE needs_loop(_, _, _)
needs_loop(roster_df, k, is_superflex) ==
    IF k = 0 THEN <<>>
    ELSE needs_loop(roster_df, k - 1, is_superflex)
            \o need_entry(roster_df, AnalyzedPositions[k], is_superflex)

RECURSIVE surpluses_loop(_, _, _)
surpluses_loop(roster_df, k, is_superflex) ==
    IF k = 0 THEN <<>>
    ELSE surpluses_loop(roster_df, k - 1, is_superflex)
            \o surplus_entry(roster_df, AnalyzedPositions[k], is_superflex)

analyze_roster_needs(roster_df, all_players_df, is_superflex) ==
    LET avg_age == <<SumAge(roster_df), Len(roster_df)>>
        result(needs, surpluses) ==
            [needs |-> sort_needs(needs),
             surpluses |-> sort_surpluses(surpluses),
             avg_age |-> avg_age,
             strategy |-> strategy_label(avg_age),
             total_value |-> SumAdjustedValue(roster_df)]
    IN  CHOOSE r \in {result(needs, surpluses) :
                         needs \in {needs_loop(roster_df, 7, is_superflex)},
                         surpluses \in {surpluses_loop(roster_df, 7, is_superflex)}} : TRUE

----------------------------------------------------------------------------
(* Specification SpecNeeds: one call of analyze_roster_needs on a roster   *)
(* made of two groups of players, each group of one position, one value    *)
(* and one age.                                                            *)

MaxCount == 9   \* largest number of players in a group

\* AdjustedValue figures; values are not clamped at zero
NeedValues == {-60, 800, 2600}

\* n rows of a position, named after the position and their index
Group(pos, n, value, age) ==
    [i \in 1..n |-> [Name |-> <<pos, i>>, Position |-> pos,
                     AdjustedValue |-> value, Age |-> age]]

InitNeeds ==
    /\ pc = 0
    /\ \E p \in Positions, q \in {"QB", "WR", "TE"},
          n \in 0..MaxCount, m \in 0..MaxCount,
          v \in NeedValues, w \in NeedValues \ {-60}, age \in {22, 30},
          is_superflex \in BOOLEAN :
          /\ p # q
          /\ args = [roster_df |-> Group(p, n, v, age) \o Group(q, m, w, age),
                     is_superflex |-> is_superflex]
    /\ ret = <<>>

AnalyzeNeeds ==
    /\ pc = 0
    /\ ret' = <<analyze_roster_needs(args.roster_df, args.roster_df, args.is_superflex)>>
    /\ pc' = 1
    /\ UNCHANGED args

NextNeeds == AnalyzeNeeds

SpecNeeds == InitNeeds /\ [][NextNeeds]_vars

\* the table of the claim: ideal count and minimum total value
ClaimedIdeal(pos) ==
    CASE pos = "QB" -> IF args.is_superflex THEN 3 ELSE 2
      [] pos = "RB" -> 5
      [] pos = "WR" -> 6
      [] pos = "TE" -> 3
      [] pos \in {"DL", "LB", "DB"} -> 4

ClaimedMinimum(pos) ==
    CASE pos = "QB" -> IF args.is_superflex THEN 8000 ELSE 5000
      [] pos = "RB" -> 12000
      [] pos = "WR" -> 15000
      [] pos = "TE" -> 4000
      [] pos \in {"DL", "LB", "DB"} -> 3000

CountOf(pos) == Cardinality({i \in DOMAIN args.roster_df : args.roster_df[i].Position = pos})
TotalOf(pos) == SumAdjustedValue(SelectSeq(args.roster_df, LAMBDA row : row.Position = pos))
NeedsAt(pos) == {k \in DOMAIN ret[1].needs : ret[1].needs[k].position = pos}
SurplusesAt(pos) == {k \in DOMAIN ret[1].surpluses : ret[1].surpluses[k].position = pos}
SevenPositions == {"QB", "RB", "WR", "TE", "DL", "LB", "DB"}

\* C14: a position of the seven is a need iff its count is below the ideal
\* or its total value below the minimum, a surplus iff its count exceeds
\* the ideal by more than 2; a need is High iff total/minimum < 0.6 and
\* Medium otherwise; the strength of a need is total/minimum and needs are
\* listed by ascending strength; no other position is listed.
C14_NeedsAndSurpluses ==
    pc = 1 =>
       /\ \A pos \in SevenPositions :
             /\ Cardinality(NeedsAt(pos)) =
                   IF CountOf(pos) < ClaimedIdeal(pos) \/ TotalOf(pos) < ClaimedMinimum(pos)
                   THEN 1 ELSE 0
             /\ Cardinality(SurplusesAt(pos)) =
                   IF CountOf(pos) > ClaimedIdeal(pos) + 2 THEN 1 ELSE 0
             /\ \A k \in NeedsAt(pos) :
                   /\ REq(ret[1].needs[k].strength, <<TotalOf(pos), ClaimedMinimum(pos)>>)
                   /\ ret[1].needs[k].priority =
                         IF 5 * TotalOf(pos) < 3 * ClaimedMinimum(pos) THEN "High" ELSE "Medium"
       /\ \A k \in DOMAIN ret[1].needs : ret[1].needs[k].position \in SevenPositions
       /\ \A k \in DOMAIN ret[1].surpluses : ret[1].surpluses[k].position \in SevenPositions
       /\ \A j \in DOMAIN ret[1].needs, k \in DOMAIN ret[1].needs :
             j < k => RLe(ret[1].needs[j].strength, ret[1].needs[k].strength)

C14_Witness ==
    /\ pc = 1 /\ args.is_superflex
    /\ CountOf("QB") = 3 /\ TotalOf("QB") = 7800
    /\ CountOf("WR") = 9 /\ TotalOf("WR") = 23400
    /\ Len(ret[1].needs) = 6 /\ ret[1].needs[6].position = "QB"
    /\ ret[1].needs[6].priority = "Medium" /\ ret[1].needs[1].priority = "High"
    /\ Len(ret[1].surpluses) = 1 /\ ret[1].surpluses[1].position = "WR"

\* C25: the severity of every reported need, total value / minimum value,
\* is clamped: it lies between 0 and 1.
C25_SeverityClamped ==
    pc = 1 =>
       \A k \in DOMAIN ret[1].needs :
          /\ RLe(<<0, 1>>, ret[1].needs[k].strength)
          /\ RLe(ret[1].needs[k].strength, <<1, 1>>)

----------------------------------------------------------------------------
(* generate_ai_trade_suggestions.  all_rosters, a dict in insertion order, *)
(* is the sequence of its items [name, roster]; other_faab_map is a        *)
(* function on the names it holds.  Player values are whole points; FAAB   *)
(* amounts, value differences and scores are rationals.  The display texts *)
(* 'rationale' and 'impact' of a suggestion are left out.                  *)

\* calculate_faab_value on a rational amount of dollars
calculate_faab_value_of_float(faab_amount) ==
    IF faab_amount[1] <= 0 THEN <<0, 1>>
    ELSE LET d == faab_amount[2]
             tier1 == Min(faab_amount[1], 25 * d)
             remaining1 == faab_amount[1] - tier1
             tier2 == IF remaining1 > 0 THEN Min(remaining1, 50 * d) ELSE 0
             remaining2 == remaining1 - tier2
             tier3 == IF remaining2 > 0 THEN Min(remaining2, 75 * d) ELSE 0
             remaining3 == remaining2 - tier3
             tier4 == IF remaining3 > 0 THEN Min(remaining3, 150 * d) ELSE 0
         IN  <<tier1 * 8 + tier2 * 12 + tier3 * 15 + tier4 * 18, d>>

RAdd(a, b) ==
    IF a[2] = b[2] THEN <<a[1] + b[1], a[2]>>
    ELSE <<a[1] * b[2] + b[1] * a[2], a[2] * b[2]>>
RNeg(a) == <<-a[1], a[2]>>

\* DataFrame.nlargest(n, 'AdjustedValue'): descending, ties in row order
nlargest(n, rows) ==
    LET m == Len(rows)
        before(j, i) == \/ rows[j].AdjustedValue > rows[i].AdjustedValue
                        \/ rows[j].AdjustedValue = rows[i].AdjustedValue /\ j < i
        place(i) == Cardinality({j \in 1..m : before(j, i)}) + 1
    IN  [k \in 1..Min(n, m) |-> rows[CHOOSE i \in 1..m : place(i) = k]]

\* [e['position'] for e in entries[:n]]
positions_of(entries, n) == [k \in 1..Min(n, Len(entries)) |-> entries[k].position]

\* x in seq
InSeq(x, seq) == \E k \in DOMAIN seq : seq[k] = x

\* the concatenation of the lists appended by the iterations of a loop
RECURSIVE Concat(_)
Concat(lists) == IF lists = <<>> THEN <<>> ELSE Head(lists) \o Concat(Tail(lists))

\* the dict of a player inside you_give or you_receive
player_entry(row) ==
    [name |-> row.Name, position |-> row.Position, value |-> row.AdjustedValue]

\* other_faab_map.get(partner_name, 300)
partner_faab_of(other_faab_map, partner_name) ==
    IF partner_name \in DOMAIN other_faab_map THEN other_faab_map[partner_name] ELSE 300

\* scenario 1, one candidate pair: the suggestion appended, or nothing
swap_suggestion(partner_name, your_player, their_player, your_faab, other_faab_map) ==
    LET value_diff == their_player.AdjustedValue - your_player.AdjustedValue
        abs_diff == IF value_diff < 0 THEN -value_diff ELSE value_diff
        faab_needed == <<abs_diff, 12>>
        you_give == value_diff > 300 /\ RLe(faab_needed, RInt(your_faab))
                       /\ RLe(faab_needed, RInt(150))
        they_give == value_diff < -300
                       /\ RLe(faab_needed, RInt(partner_faab_of(other_faab_map, partner_name)))
                       /\ RLe(faab_needed, RInt(150))
        faab_to_add == IF you_give \/ they_give THEN RMin(faab_needed, RInt(150)) ELSE <<0, 1>>
    IN  IF 2 * abs_diff < your_player.AdjustedValue
        THEN <<[partner |-> partner_name,
                you_give |-> <<player_entry(your_player)>>,
                you_receive |-> <<player_entry(their_player)>>,
                you_give_faab |-> IF you_give THEN faab_to_add ELSE <<0, 1>>,
                you_receive_faab |-> IF they_give THEN faab_to_add ELSE <<0, 1>>,
                value_diff |->
                    IF they_give
                    THEN RAdd(RInt(value_diff), calculate_faab_value_of_float(faab_to_add))
                    ELSE IF you_give
                    THEN RAdd(RInt(value_diff), RNeg(calculate_faab_value_of_float(faab_to_add)))
                    ELSE RInt(value_diff)]>>
        ELSE <<>>

\* scenario 1 for one partner
swap_suggestions(your_roster, partner_name, partner_roster, your_surplus_positions, your_need_positions, partner_surplus_positions, partner_need_positions, your_faab, other_faab_map) ==
    Concat([a \in DOMAIN your_surplus_positions |->
      IF ~InSeq(your_surplus_positions[a], partner_need_positions) THEN <<>>
      ELSE Concat([b \in DOMAIN partner_surplus_positions |->
        IF ~InSeq(partner_surplus_positions[b], your_need_positions) THEN <<>>
        ELSE \* the two candidate lists are computed once
             CHOOSE r \in {
               Concat([c \in DOMAIN your_candidates |->
                 Concat([d \in DOMAIN their_candidates |->
                   swap_suggestion(partner_name, your_candidates[c], their_candidates[d],
                                   your_faab, other_faab_map)])]) :
               your_candidates \in {nlargest(3, RowsAt(your_roster, your_surplus_positions[a]))},
               their_candidates \in {nlargest(3, RowsAt(partner_roster, partner_surplus_positions[b]))}}
             : TRUE])])

\* the pick offered for a player: description and value
pick_for(value) ==
    IF 4 * value > 25000 THEN [description |-> "2026 1st (mid)", value |-> 5500]
    ELSE IF 4 * value > 15000 THEN [description |-> "2026 1st (late)", value |-> 3800]
    ELSE IF 4 * value > 10000 THEN [description |-> "2026 2nd (early)", value |-> 3200]
    ELSE IF 4 * value > 5000 THEN [description |-> "2026 2nd (mid)", value |-> 2100]
    ELSE [description |-> "2026 3rd", value |-> 800]

\* scenario 2, one player: the suggestion appended
pick_suggestion(partner_name, your_player) ==
    LET pick == pick_for(your_player.AdjustedValue)
        diff == pick.value - your_player.AdjustedValue
        faab_balance == IF diff < -500 THEN RMin(<<-diff, 12>>, RInt(100))
                        ELSE IF diff > 500 THEN RMin(<<diff, 12>>, RInt(100))
                        ELSE <<0, 1>>
    IN  [partner |-> partner_name,
         you_give |-> <<player_entry(your_player)>>,
         you_receive |-> <<>>,
         you_give_picks |-> <<>>,
         you_receive_picks |-> <<pick>>,
         you_give_faab |-> IF diff > 500 THEN faab_balance ELSE <<0, 1>>,
         you_receive_faab |-> IF diff < -500 THEN faab_balance ELSE <<0, 1>>,
         value_diff |->
             IF diff < -500
             THEN RAdd(RInt(diff), calculate_faab_value_of_float(faab_balance))
             ELSE RAdd(RInt(diff), RNeg(calculate_faab_value_of_float(faab_balance)))]

\* scenario 2 for one partner
pick_suggestions(your_roster, partner_name, your_surplus_positions, partner_need_positions) ==
    IF your_surplus_positions = <<>> \/ partner_need_positions = <<>> THEN <<>>
    ELSE Concat([a \in 1..Min(2, Len(your_surplus_positions)) |->
           IF ~InSeq(your_surplus_positions[a], partner_need_positions) THEN <<>>
           ELSE CHOOSE r \in {
                  [c \in DOMAIN your_best |-> pick_suggestion(partner_name, your_best[c])] :
                  your_best \in {nlargest(2, RowsAt(your_roster, your_surplus_positions[a]))}}
                : TRUE])

\* the body of the loop over all_rosters for one item
partner_suggestions(your_roster, item, your_team, your_needs, your_faab, other_faab_map, is_superflex) ==
    IF item.name = your_team THEN <<>>
    ELSE CHOOSE r \in {
           swap_suggestions(your_roster, item.name, item.roster,
                            positions_of(your_needs.surpluses, Len(your_needs.surpluses)),
                            positions_of(your_needs.needs, 3),
                            positions_of(partner_needs_data.surpluses,
                                         Len(partner_needs_data.surpluses)),
                            positions_of(partner_needs_data.needs, 3),
                            your_faab, other_faab_map)
           \o pick_suggestions(your_roster, item.name,
                               positions_of(your_needs.surpluses, Len(your_needs.surpluses)),
                               positions_of(partner_needs_data.needs, 3)) :
           partner_needs_data \in
               {analyze_roster_needs(item.roster, your_roster \o item.roster, is_superflex)}}
         : TRUE

\* the list suggestions as it stands when the loop over all_rosters ends
generated_suggestions(your_roster, all_rosters, your_team, your_needs, your_faab, other_faab_map, is_superflex) ==
    Concat([p \in DOMAIN all_rosters |->
              partner_suggestions(your_roster, all_rosters[p], your_team, your_needs,
                                  your_faab, other_faab_map, is_superflex)])

\* s['balance_score'] = 1000 - abs(s['value_diff'])
with_balance_score(s) ==
    s @@ [balance_score |-> RAdd(RInt(1000), RNeg(RAbs(s.value_diff)))]

\* mutant: the sort puts the later of two equal scores first
sort_suggestions_Unstable(suggestions) ==
    LET n == Len(suggestions)
        before(j, i) == \/ RLt(suggestions[i].balance_score, suggestions[j].balance_score)
                        \/ REq(suggestions[i].balance_score, suggestions[j].balance_score) /\ j > i
        place(i) == Cardinality({j \in 1..n : before(j, i)}) + 1
    IN  [k \in 1..n |-> suggestions[CHOOSE i \in 1..n : place(i) = k]]

\* suggestions.sort(key=lambda x: x['balance_score'], reverse=True): stable
sort_suggestions(suggestions) ==
    LET n == Len(suggestions)
        before(j, i) == \/ RLt(suggestions[i].balance_score, suggestions[j].balance_score)
                        \/ REq(suggestions[i].balance_score, suggestions[j].balance_score) /\ j < i
        place(i) == Cardinality({j \in 1..n : before(j, i)}) + 1
    IN  [k \in 1..n |-> suggestions[CHOOSE i \in 1..n : place(i) = k]]

\* the scoring, the sort and suggestions[:10]
top_suggestions(suggestions) ==
    CHOOSE r \in {SubSeq(sort_suggestions(scored), 1, Min(10, Len(scored))) :
                    scored \in {[k \in DOMAIN suggestions |-> with_balance_score(suggestions[k])]}}
         : TRUE

generate_ai_trade_suggestions(your_roster, all_rosters, your_team, your_needs, your_faab, other_faab_map, is_superflex) ==
    top_suggestions(generated_suggestions(your_roster, all_rosters, your_team, your_needs,
                                          your_faab, other_faab_map, is_superflex))

----------------------------------------------------------------------------
(* Specification SpecSuggest: one call of generate_ai_trade_suggestions.   *)
(* The user's team "You" holds five QBs, "Ann" six TEs, "Cal" two strong   *)
(* QBs and "Eve" nobody; all_rosters lists the user's team and one or more *)
(* of the others in any order, your_needs is what analyze_roster_needs     *)
(* says of the user's roster.                                              *)

MaxTeams == 3   \* largest number of teams in all_rosters

TeamNames == {"You", "Ann", "Cal", "Eve"}

YourValues == {2600, 3000, 5000}
PartnerValues == {2400, 3300, 5400}

\* the rows of a roster, named after the team and their index
Rows(team, pos, values) ==
    [i \in DOMAIN values |-> [Name |-> <<team, i>>, Position |-> pos,
                              AdjustedValue |-> values[i], Age |-> 26]]

RosterOf(team, a, b) ==
    CASE team = "You" -> Rows("You", "QB", <<900, a[1], a[2], 900, a[3]>>)
      [] team = "Ann" -> Rows("Ann", "TE", <<b[1], 500, b[2], 500, b[3], 500>>)
      [] team = "Cal" -> Rows("Cal", "QB", <<3000, 3000>>)
      [] team = "Eve" -> <<>>

\* the orders in which all_rosters can list the user's team and others
Layouts ==
    {s \in UNION {[1..m -> TeamNames] : m \in 2..MaxTeams} :
        /\ \A i \in DOMAIN s, j \in DOMAIN s : i # j => s[i] # s[j]
        /\ \E i \in DOMAIN s : s[i] = "You"}

\* three values in non-decreasing order
Triples(S) == {t \in [1..3 -> S] : t[1] <= t[2] /\ t[2] <= t[3]}

FaabMaps(names) ==
    {[n \in {} |-> 0], [n \in names |-> 0]}

InitSuggest ==
    /\ pc = 0
    /\ \E layout \in Layouts, a \in Triples(YourValues), b \in Triples(PartnerValues),
          your_faab \in {0, 60}, is_superflex \in BOOLEAN :
       \E other_faab_map \in FaabMaps({layout[i] : i \in DOMAIN layout}) :
          /\ (\A i \in DOMAIN layout : layout[i] # "Ann") => b = <<2400, 2400, 2400>>
          /\ args = [your_roster |-> RosterOf("You", a, b),
                     all_rosters |-> [i \in DOMAIN layout |->
                                        [name |-> layout[i],
                                         roster |-> RosterOf(layout[i], a, b)]],
                     your_team |-> "You",
                     your_needs |-> analyze_roster_needs(RosterOf("You", a, b),
                                                         RosterOf("You", a, b), is_superflex),
                     your_faab |-> your_faab,
                     other_faab_map |-> other_faab_map,
                     is_superflex |-> is_superflex]
    /\ ret = [generated |-> <<>>, returned |-> <<>>]

\* the call; ret.generated is the list before it is scored and sorted
GenerateSuggestions ==
    /\ pc = 0
    /\ \E generated \in {generated_suggestions(args.your_roster, args.all_rosters,
                              args.your_team, args.your_needs, args.your_faab,
                              args.other_faab_map, args.is_superflex)} :
          ret' = [generated |-> generated, returned |-> top_suggestions(generated)]
    /\ pc' = 1
    /\ UNCHANGED args

NextSuggest == GenerateSuggestions

SpecSuggest == InitSuggest /\ [][NextSuggest]_vars

\* the value of the players and picks of one side of a suggestion
GiveBasket(s) == SumValues(s.you_give)
ReceiveBasket(s) ==
    SumValues(s.you_receive)
       + (IF "you_receive_picks" \in DOMAIN s THEN SumValues(s.you_receive_picks) ELSE 0)

\* C11: in every returned suggestion the cash the user adds is within the
\* user's remaining budget, the cash the partner adds within the partner's
\* remaining budget, both within the per-trade cap of 150, at most one of
\* the two is not zero, and the side that adds cash is the one whose
\* players and picks are worth less.
C11_FaabWithinBudgets ==
    pc = 1 =>
       \A k \in DOMAIN ret.returned :
          LET s == ret.returned[k]
          IN  /\ RLe(s.you_give_faab, RInt(args.your_faab))
              /\ RLe(s.you_receive_faab,
                     RInt(partner_faab_of(args.other_faab_map, s.partner)))
              /\ RLe(s.you_give_faab, RInt(150)) /\ RLe(s.you_receive_faab, RInt(150))
              /\ REq(s.you_give_faab, RInt(0)) \/ REq(s.you_receive_faab, RInt(0))
              /\ RLt(RInt(0), s.you_give_faab) => GiveBasket(s) < ReceiveBasket(s)
              /\ RLt(RInt(0), s.you_receive_faab) => ReceiveBasket(s) < GiveBasket(s)

\* a suggestion as it was generated, before the score was added
Unscored(s) == [f \in DOMAIN s \ {"balance_score"} |-> s[f]]

\* where a returned suggestion stands in the generated list
GeneratedAt(s) == CHOOSE i \in DOMAIN ret.generated : ret.generated[i] = Unscored(s)

ScoreOf(s) == RAdd(RInt(1000), RNeg(RAbs(s.value_diff)))

\* C12: at most 10 suggestions are returned, each one generated, none with
\* the user's own team as partner; the score is 1000 - |value_diff|; the
\* scores never rise along the list, equal scores keep the order of
\* generation, and nothing that was cut scores higher than something
\* returned.
C12_TopTen ==
    pc = 1 =>
       /\ Len(ret.returned) = Min(10, Len(ret.generated))
       /\ \A k \in DOMAIN ret.returned :
             /\ \E i \in DOMAIN ret.generated : ret.generated[i] = Unscored(ret.returned[k])
             /\ REq(ret.returned[k].balance_score, ScoreOf(ret.returned[k]))
             /\ ret.returned[k].partner # args.your_team
       /\ \A j \in DOMAIN ret.returned, k \in DOMAIN ret.returned :
             j < k =>
                /\ RLe(ret.returned[k].balance_score, ret.returned[j].balance_score)
                /\ REq(ret.returned[k].balance_score, ret.returned[j].balance_score)
                      => GeneratedAt(ret.returned[j]) < GeneratedAt(ret.returned[k])
       /\ \A i \in DOMAIN ret.generated :
             (\A k \in DOMAIN ret.returned : Unscored(ret.returned[k]) # ret.generated[i])
                => \A k \in DOMAIN ret.returned :
                      RLe(ScoreOf(ret.generated[i]), ret.returned[k].balance_score)

C12_Witness ==
    /\ pc = 1 /\ Len(ret.generated) = 11 /\ Len(ret.returned) = 10
    /\ args.all_rosters[1].name = "You"
    /\ \E j \in 1..9 :
          /\ REq(ret.returned[j].balance_score, ret.returned[j + 1].balance_score)
          /\ GeneratedAt(ret.returned[j]) < GeneratedAt(ret.returned[j + 1])
    /\ RLt(ret.returned[10].balance_score, ret.returned[1].balance_score)

\* every team of all_rosters but the user's has no player
PartnersEmpty ==
    \A p \in DOMAIN args.all_rosters :
       args.all_rosters[p].name # args.your_team => args.all_rosters[p].roster = <<>>

\* C13: when every partner's roster is empty no suggestion is returned.
C13_EmptyPartners == pc = 1 /\ PartnersEmpty => ret.returned = <<>>

----------------------------------------------------------------------------
(* run_monte_carlo_playoff_sim and simulate_post_trade_odds.  In these two *)
(* functions a roster row carries its AdjustedValue as a rational, since   *)
(* the post-trade nudge adds a fraction to every row.  league_rosters, a   *)
(* dict in insertion order, is the sequence of its items [name, roster].   *)
(* The draws of np.random are choices: a team whose value is 0 scores      *)
(* exactly 0 (normal(0, 0) is 0), a team of positive value can score any   *)
(* real number but 0, and two such teams never score the same.  Only the   *)
(* order of the scores is used, so a score is its level among the scores   *)
(* above 0 or among those below 0.                                         *)

\* roster['AdjustedValue'].sum()
RECURSIVE SumFloatColumn(_)
SumFloatColumn(roster) ==
    IF roster = <<>> THEN <<0, 1>>
    ELSE RAdd(Head(roster).AdjustedValue, SumFloatColumn(Tail(roster)))

\* team_values, in the order of league_rosters
team_values_of(league_rosters) ==
    [t \in DOMAIN league_rosters |->
        [name |-> league_rosters[t].name,
         base_value |-> SumFloatColumn(league_rosters[t].roster)]]

\* max(4, num_teams // 2)
playoff_spots_of(num_teams) == IF num_teams \div 2 > 4 THEN num_teams \div 2 ELSE 4

\* the score levels of a trial with the given number of scoring teams
ScoreLevels(num_teams) == (0 - num_teams)..num_teams

\* the simulated_scores a trial can draw for the given team values: the
\* levels of the teams of positive value, 0 for every other team
SimulatedScores(team_values) ==
    LET positive == {t \in DOMAIN team_values : team_values[t].base_value[1] # 0}
        drawn == {s \in [positive -> ScoreLevels(Cardinality(positive)) \ {0}] :
                    /\ \A t \in positive, u \in positive : t # u => s[t] # s[u]
                    /\ \A t \in positive :
                          /\ s[t] > 1 => \E u \in positive : s[u] = s[t] - 1
                          /\ s[t] < 0 - 1 => \E u \in positive : s[u] = s[t] + 1}
    IN  {[t \in DOMAIN team_values |-> IF t \in positive THEN s[t] ELSE 0] : s \in drawn}

\* sorted(simulated_scores.items(), key=lambda x: x[1], reverse=True):
\* the team indices by descending score, equal scores in dict order
sorted_teams_of(simulated_scores) ==
    LET n == Len(simulated_scores)
        before(u, t) == \/ simulated_scores[u] > simulated_scores[t]
                        \/ simulated_scores[u] = simulated_scores[t] /\ u < t
        place(t) == Cardinality({u \in 1..n : before(u, t)}) + 1
    IN  [k \in 1..n |-> CHOOSE t \in 1..n : place(t) = k]

\* the condition of the generator inside next(...)
is_your_team(team_value, your_value) ==
    team_value.name = "Your Team" \/ REq(team_value.base_value, your_value)

\* next(i+1 for ... if ...): the first position that passes, 0 when the
\* generator is exhausted and next raises StopIteration
finish_position_of(sorted_teams, team_values, your_value) ==
    LET hits == {i \in DOMAIN sorted_teams :
                    is_your_team(team_values[sorted_teams[i]], your_value)}
    IN  IF hits = {} THEN 0 ELSE CHOOSE i \in hits : \A j \in hits : i <= j

\* the state of a run before its first trial
new_run(roster_df, league_rosters) ==
    [team_values |-> team_values_of(league_rosters),
     your_value |-> SumFloatColumn(roster_df),
     playoff_spots |-> playoff_spots_of(Len(league_rosters)),
     playoff_count |-> 0,
     championship_count |-> 0,
     finish_positions |-> <<>>]

\* mutant: a title is drawn in every trial, in the playoffs or not
after_trial_TitleAnywhere(run, finish_position, champion) ==
    [run EXCEPT !.finish_positions = Append(@, finish_position),
                !.playoff_count =
                    IF finish_position <= run.playoff_spots THEN @ + 1 ELSE @,
                !.championship_count = IF champion THEN @ + 1 ELSE @]

\* one trial that found a finish position; champion is the outcome of
\* np.random.random() < championship_prob
after_trial(run, finish_position, champion) ==
    [run EXCEPT !.finish_positions = Append(@, finish_position),
                !.playoff_count =
                    IF finish_position <= run.playoff_spots THEN @ + 1 ELSE @,
                !.championship_count =
                    IF finish_position <= run.playoff_spots /\ champion THEN @ + 1 ELSE @]

\* finish_positions.sort()
sort_positions(finish_positions) ==
    LET n == Len(finish_positions)
        before(j, i) == \/ finish_positions[j] < finish_positions[i]
                        \/ finish_positions[j] = finish_positions[i] /\ j < i
        place(i) == Cardinality({j \in 1..n : before(j, i)}) + 1
    IN  [k \in 1..n |-> finish_positions[CHOOSE i \in 1..n : place(i) = k]]

RECURSIVE SumInts(_)
SumInts(s) == IF s = <<>> THEN 0 ELSE Head(s) + SumInts(Tail(s))

\* the dict returned by run_monte_carlo_playoff_sim, n_simulations >= 1
run_result(run, n_simulations) ==
    [playoff_odds |-> <<run.playoff_count * 100, n_simulations>>,
     championship_odds |-> <<run.championship_count * 100, n_simulations>>,
     avg_finish |-> <<SumInts(run.finish_positions), Len(run.finish_positions)>>,
     confidence_interval |->
         <<sort_positions(run.finish_positions)[(n_simulations * 25) \div 1000 + 1],
           sort_positions(run.finish_positions)[(n_simulations * 975) \div 1000 + 1]>>,
     finish_distribution |-> sort_positions(run.finish_positions)]

\* post_trade_roster after the removals and the concat
traded_roster(current_roster, give_players, receive_players) ==
    SelectSeq(current_roster,
              LAMBDA row : \A g \in DOMAIN give_players :
                              lower(row.Name) # lower(give_players[g].name))
      \o [r \in DOMAIN receive_players |->
            [Name |-> receive_players[r].name,
             Position |-> receive_players[r].position,
             AdjustedValue |-> receive_players[r].value]]

\* post_trade_roster['AdjustedValue'] += value_adjustment * 0.1
nudged_roster(roster, net_value) ==
    IF Len(roster) > 0
    THEN [i \in DOMAIN roster |->
            [roster[i] EXCEPT !.AdjustedValue = RAdd(@, <<net_value, 10 * Len(roster)>>)]]
    ELSE roster

\* the roster of the after run
post_trade_roster_of(current_roster, give_players, receive_players, give_picks_value, receive_picks_value, give_faab_value, receive_faab_value) ==
    nudged_roster(traded_roster(current_roster, give_players, receive_players),
                  (receive_picks_value - give_picks_value)
                     + (receive_faab_value - give_faab_value))

\* the dict returned by simulate_post_trade_odds
odds_comparison(before_sim, after_sim) ==
    [before |-> before_sim,
     after |-> after_sim,
     playoff_change |-> RAdd(after_sim.playoff_odds, RNeg(before_sim.playoff_odds)),
     championship_change |->
         RAdd(after_sim.championship_odds, RNeg(before_sim.championship_odds)),
     finish_change |-> RAdd(before_sim.avg_finish, RNeg(after_sim.avg_finish))]

----------------------------------------------------------------------------
(* Specification SpecMonteCarlo: one call of simulate_post_trade_odds, a   *)
(* run of run_monte_carlo_playoff_sim on the current roster and one on the *)
(* post-trade roster.  ret.status says where the call stands: "start",     *)
(* "before" and "after" while a run is under way, "between" the two runs,  *)
(* "returned", or "raised" with the exception in ret.exception; pc counts  *)
(* the trials of the current run.  The league with the two empty teams is  *)
(* simulated for the user "Your Team" and a trade of picks alone.          *)

MaxLeague == 3   \* largest number of teams in league_rosters
MaxTrials == 2   \* largest n_simulations

\* a one-row roster
OneRow(name, pos, value) ==
    <<[Name |-> name, Position |-> pos, AdjustedValue |-> <<value, 1>>]>>

CurrentRoster == OneRow(<<"A", "l">>, "RB", 3000) \o OneRow(<<"B", "o">>, "WR", 2000)

PartnerNames == {"Ann", "Cat"}

\* two teams of the league that have no player
EmptyTeams == <<"Dan", "Eve">>

LeagueRosterOf(team, user_team, all_empty) ==
    IF all_empty THEN <<>>
    ELSE CASE team = user_team -> CurrentRoster
           [] team = "Ann" -> OneRow(<<"D", "e">>, "QB", 5500)
           [] team = "Cat" -> OneRow(<<"F", "y">>, "QB", 5000)
           [] OTHER -> <<>>

\* the orders in which league_rosters can list the user's team and the
\* teams that have players
PlayerLayouts(user_team) ==
    {s \in UNION {[1..m -> PartnerNames \cup {user_team}] : m \in 1..MaxLeague} :
        /\ \A i \in DOMAIN s, j \in DOMAIN s : i # j => s[i] # s[j]
        /\ \E i \in DOMAIN s : s[i] = user_team}

\* no team, the teams with players, or all of those and the empty teams
LeagueLayouts(user_team) ==
    {<<>>} \cup PlayerLayouts(user_team) \cup {<<user_team, "Ann", "Cat">> \o EmptyTeams}

GiveInputs == {<<>>, <<[name |-> <<"b", "o">>, position |-> "WR", value |-> <<2000, 1>>]>>}

ReceiveInputs ==
    {<<>>} \cup {<<[name |-> <<"C", "y">>, position |-> "TE", value |-> <<v, 1>>]>> :
                   v \in {2000, 2500}}

InitMonteCarlo ==
    /\ pc = 0
    /\ \E user_team \in {"You", "Your Team"}, all_empty \in BOOLEAN,
          n_simulations \in 1..MaxTrials,
          give_players \in GiveInputs, receive_players \in ReceiveInputs,
          receive_picks_value \in {0, 500}, give_faab_value \in {0} :
       \E layout \in LeagueLayouts(user_team) :
          /\ all_empty => give_players = <<>>
          /\ Len(layout) > Cardinality(PartnerNames) + 1 =>
                /\ user_team = "Your Team" /\ ~all_empty
                /\ give_players = <<>> /\ receive_players = <<>>
                /\ receive_picks_value = 500
          /\ args = [user_team |-> user_team,
                     current_roster |-> IF all_empty THEN <<>> ELSE CurrentRoster,
                     give_players |-> give_players,
                     receive_players |-> receive_players,
                     give_picks_value |-> 0,
                     receive_picks_value |-> receive_picks_value,
                     give_faab_value |-> give_faab_value,
                     receive_faab_value |-> 0,
                     league_rosters |->
                         [t \in DOMAIN layout |->
                            [name |-> layout[t],
                             roster |-> LeagueRosterOf(layout[t], user_team, all_empty)]],
                     n_simulations |-> n_simulations]
    /\ ret = [status |-> "start", exception |-> "", run |-> <<>>, before_sim |-> <<>>,
              post_trade_roster |-> <<>>, result |-> <<>>]

\* the lines of run_monte_carlo_playoff_sim above its loop, for the
\* current roster in the first run and the post-trade roster in the second
BeginRun ==
    /\ ret.status \in {"start", "between"}
    /\ ret' = [ret EXCEPT
                 !.status = IF ret.status = "start" THEN "before" ELSE "after",
                 !.run = new_run(IF ret.status = "start" THEN args.current_roster
                                 ELSE ret.post_trade_roster,
                                 args.league_rosters)]
    /\ pc' = 0
    /\ UNCHANGED args

\* one pass of the loop that finds the finish position
Trial ==
    /\ ret.status \in {"before", "after"} /\ pc < args.n_simulations
    /\ \E simulated_scores \in SimulatedScores(ret.run.team_values), champion \in BOOLEAN :
       \E finish_position \in {finish_position_of(sorted_teams_of(simulated_scores),
                                    ret.run.team_values, ret.run.your_value)} :
          /\ finish_position > 0
          /\ finish_position = 1 => champion
          /\ ret' = [ret EXCEPT !.run = after_trial(ret.run, finish_position, champion)]
    /\ pc' = pc + 1
    /\ UNCHANGED args

\* one pass of the loop in which next(...) finds no team and raises
TrialRaises ==
    /\ ret.status \in {"before", "after"} /\ pc < args.n_simulations
    /\ \E simulated_scores \in SimulatedScores(ret.run.team_values) :
          finish_position_of(sorted_teams_of(simulated_scores),
                             ret.run.team_values, ret.run.your_value) = 0
    /\ ret' = [ret EXCEPT !.status = "raised", !.exception = "StopIteration"]
    /\ UNCHANGED <<args, pc>>

\* the end of the first run and the lines of simulate_post_trade_odds
\* between the two runs
EndBefore ==
    /\ ret.status = "before" /\ pc = args.n_simulations
    /\ ret' = [ret EXCEPT
                 !.status = "between",
                 !.before_sim = run_result(ret.run, args.n_simulations),
                 !.post_trade_roster =
                     post_trade_roster_of(args.current_roster, args.give_players,
                         args.receive_players, args.give_picks_value,
                         args.receive_picks_value, args.give_faab_value,
                         args.receive_faab_value)]
    /\ UNCHANGED <<args, pc>>

\* the end of the second run and the return of simulate_post_trade_odds
EndAfter ==
    /\ ret.status = "after" /\ pc = args.n_simulations
    /\ ret' = [ret EXCEPT
                 !.status = "returned",
                 !.result = odds_comparison(ret.before_sim,
                                            run_result(ret.run, args.n_simulations))]
    /\ UNCHANGED <<args, pc>>

NextMonteCarlo == BeginRun \/ Trial \/ TrialRaises \/ EndBefore \/ EndAfter

SpecMonteCarlo == InitMonteCarlo /\ [][NextMonteCarlo]_vars

\* no team, or no player on any roster
NothingToSimulate ==
    /\ args.current_roster = <<>>
    /\ \A t \in DOMAIN args.league_rosters : args.league_rosters[t].roster = <<>>

\* C15: with no team or with empty rosters the simulation raises nothing
\* and reports zero playoff odds, zero championship odds and a zero
\* average finish.
C15_NeutralResult ==
    NothingToSimulate =>
       /\ ret.status # "raised"
       /\ ret.status \in {"between", "after", "returned"} =>
             /\ ret.before_sim.playoff_odds[1] = 0
             /\ ret.before_sim.championship_odds[1] = 0
             /\ ret.before_sim.avg_finish[1] = 0

\* the entry of the user's team in the team values of the current run
UserStrength ==
    LET t == CHOOSE t \in DOMAIN ret.run.team_values :
                ret.run.team_values[t].name = args.user_team
    IN  ret.run.team_values[t].base_value

\* the total value of the roster after the trade
PostTradeTotal ==
    RAdd(SumFloatColumn(traded_roster(args.current_roster, args.give_players,
                                      args.receive_players)),
         IF traded_roster(args.current_roster, args.give_players,
                          args.receive_players) = <<>> THEN <<0, 1>>
         ELSE <<(args.receive_picks_value - args.give_picks_value)
                  + (args.receive_faab_value - args.give_faab_value), 10>>)

\* C18: in the after run the strength of the user's team is the total
\* value of the post-trade roster, in the before run that of the current
\* roster; the after run raises nothing; the reported changes are after
\* minus before.
C18_AfterRunOnPostTradeRoster ==
    args.league_rosters # <<>> =>
       /\ ret.status = "before" => REq(UserStrength, SumFloatColumn(args.current_roster))
       /\ ret.status = "after" => REq(UserStrength, PostTradeTotal)
       /\ ret.status = "raised" => ret.before_sim = <<>>
       /\ ret.status = "returned" =>
             /\ REq(ret.result.playoff_change,
                    RAdd(ret.result.after.playoff_odds, RNeg(ret.result.before.playoff_odds)))
             /\ REq(ret.result.championship_change,
                    RAdd(ret.result.after.championship_odds,
                         RNeg(ret.result.before.championship_odds)))

----------------------------------------------------------------------------
(* run_playoff_simulation.  all_rosters_df enters through the projected    *)
(* points of its teams, team_projections, a sequence of [team, projection] *)
(* in the order of the dict; league_rosters with the user map applied is a *)
(* sequence of [roster_id, team]; all_matchups is a function from the      *)
(* weeks that have data to the list of that week's entries [roster_id,     *)
(* matchup_id, points], a matchup_id of None being 0.  A dict keyed by     *)
(* team is a function on the team names, its order that of                 *)
(* team_projections.                                                       *)

\* roster_id_to_team[roster_id], "" when the id is not a key
team_of(league_rosters, roster_id) ==
    IF \E r \in DOMAIN league_rosters : league_rosters[r].roster_id = roster_id
    THEN league_rosters[CHOOSE r \in DOMAIN league_rosters :
                           /\ league_rosters[r].roster_id = roster_id
                           /\ \A q \in DOMAIN league_rosters :
                                 league_rosters[q].roster_id = roster_id => q <= r].team
    ELSE ""

\* the entries of a week that pass "matchup_id and roster_id in roster_id_to_team"
grouped_entries(matchups, league_rosters) ==
    SelectSeq([m \in DOMAIN matchups |->
                 [roster_id |-> matchups[m].roster_id,
                  matchup_id |-> matchups[m].matchup_id,
                  team |-> team_of(league_rosters, matchups[m].roster_id),
                  points |-> matchups[m].points]],
              LAMBDA e : e.matchup_id # 0 /\ e.team # "")

\* matchup_dict.items(): the groups in the order their ids first appear
matchup_dict_of(matchups, league_rosters) ==
    LET entries == grouped_entries(matchups, league_rosters)
        firsts == {i \in DOMAIN entries :
                      \A j \in 1..(i - 1) : entries[j].matchup_id # entries[i].matchup_id}
        nth(k) == CHOOSE i \in firsts : Cardinality({j \in firsts : j < i}) = k - 1
    IN  [k \in 1..Cardinality(firsts) |->
            SelectSeq(entries, LAMBDA e : e.matchup_id = entries[nth(k)].matchup_id)]

\* the groups of a week that are played: two teams, both with a record
games_of(matchups, league_rosters, teams) ==
    SelectSeq(matchup_dict_of(matchups, league_rosters),
              LAMBDA g : Len(g) = 2 /\ g[1].team \in teams /\ g[2].team \in teams)

\* the names of team_projections.keys()
projected_teams(team_projections) ==
    {team_projections[t].team : t \in DOMAIN team_projections}

projection_of(team_projections, team) ==
    team_projections[CHOOSE t \in DOMAIN team_projections :
                        team_projections[t].team = team].projection

\* team_records before the first week
new_team_records(team_projections) ==
    [team \in projected_teams(team_projections) |->
        [wins |-> 0, losses |-> 0, ties |-> 0, points_for |-> 0, points_against |-> 0]]

\* the record updates of one completed matchup
record_matchup(team_records, g) ==
    LET team1 == g[1].team
        team2 == g[2].team
        points1 == g[1].points
        points2 == g[2].points
    IN  [team \in DOMAIN team_records |->
           IF team = team1 /\ team = team2
           THEN [team_records[team] EXCEPT
                   !.points_for = @ + points1 + points2,
                   !.points_against = @ + points2 + points1,
                   !.wins = IF points1 # points2 THEN @ + 1 ELSE @,
                   !.losses = IF points1 # points2 THEN @ + 1 ELSE @,
                   !.ties = IF points1 = points2 THEN @ + 2 ELSE @]
           ELSE IF team = team1
           THEN [team_records[team] EXCEPT
                   !.points_for = @ + points1,
                   !.points_against = @ + points2,
                   !.wins = IF points1 > points2 THEN @ + 1 ELSE @,
                   !.losses = IF points2 > points1 THEN @ + 1 ELSE @,
                   !.ties = IF points1 = points2 THEN @ + 1 ELSE @]
           ELSE IF team = team2
           THEN [team_records[team] EXCEPT
                   !.points_for = @ + points2,
                   !.points_against = @ + points1,
                   !.wins = IF points2 > points1 THEN @ + 1 ELSE @,
                   !.losses = IF points1 > points2 THEN @ + 1 ELSE @,
                   !.ties = IF points1 = points2 THEN @ + 1 ELSE @]
           ELSE team_records[team]]

\* the loop over the matchups of one completed week
RECURSIVE record_week(_, _)
record_week(team_records, games) ==
    IF games = <<>> THEN team_records
    ELSE record_week(record_matchup(team_records, Head(games)), Tail(games))

\* the last week of range(1, min(current_week, len(all_matchups) + 1))
last_completed_week(current_week, all_matchups) ==
    IF current_week < Cardinality(DOMAIN all_matchups) + 1
    THEN current_week - 1
    ELSE Cardinality(DOMAIN all_matchups)

\* the loop "Process completed weeks", from week to the last of the range
RECURSIVE process_completed_weeks(_, _, _, _, _)
process_completed_weeks(team_records, week, current_week, all_matchups, league_rosters) ==
    IF week > last_completed_week(current_week, all_matchups) THEN team_records
    ELSE process_completed_weeks(
             IF week \notin DOMAIN all_matchups THEN team_records
             ELSE record_week(team_records,
                              games_of(all_matchups[week], league_rosters,
                                       DOMAIN team_records)),
             week + 1, current_week, all_matchups, league_rosters)

\* sim_records at the start of a trial
copy_records(team_records) ==
    [team \in DOMAIN team_records |->
        [wins |-> team_records[team].wins,
         losses |-> team_records[team].losses,
         points_for |-> team_records[team].points_for,
         points_against |-> team_records[team].points_against]]

\* mutant: equal scores are a tie that gives nobody a win or a loss
simulate_game_TieUncounted(sim_records, g, score1, score2) ==
    LET team1 == g[1].team
        team2 == g[2].team
    IN  [team \in DOMAIN sim_records |->
           IF team = team1 /\ team = team2
           THEN [sim_records[team] EXCEPT
                   !.points_for = @ + score1 + score2,
                   !.points_against = @ + score2 + score1,
                   !.wins = @ + 1, !.losses = @ + 1]
           ELSE IF team = team1
           THEN [sim_records[team] EXCEPT
                   !.points_for = @ + score1,
                   !.points_against = @ + score2,
                   !.wins = IF score1 > score2 THEN @ + 1 ELSE @,
                   !.losses = IF score2 > score1 THEN @ + 1 ELSE @]
           ELSE IF team = team2
           THEN [sim_records[team] EXCEPT
                   !.points_for = @ + score2,
                   !.points_against = @ + score1,
                   !.wins = IF score2 > score1 THEN @ + 1 ELSE @,
                   !.losses = IF score1 > score2 THEN @ + 1 ELSE @]
           ELSE sim_records[team]]

\* the record updates of one simulated game
simulate_game(sim_records, g, score1, score2) ==
    LET team1 == g[1].team
        team2 == g[2].team
    IN  [team \in DOMAIN sim_records |->
           IF team = team1 /\ team = team2
           THEN [sim_records[team] EXCEPT
                   !.points_for = @ + score1 + score2,
                   !.points_against = @ + score2 + score1,
                   !.wins = @ + 1, !.losses = @ + 1]
           ELSE IF team = team1
           THEN [sim_records[team] EXCEPT
                   !.points_for = @ + score1,
                   !.points_against = @ + score2,
                   !.wins = IF score1 > score2 THEN @ + 1 ELSE @,
                   !.losses = IF score1 > score2 THEN @ ELSE @ + 1]
           ELSE IF team = team2
           THEN [sim_records[team] EXCEPT
                   !.points_for = @ + score2,
                   !.points_against = @ + score1,
                   !.wins = IF score1 > score2 THEN @ ELSE @ + 1,
                   !.losses = IF score1 > score2 THEN @ + 1 ELSE @]
           ELSE sim_records[team]]

\* the loop over the games of one simulated week, scores[k] the two
\* scores drawn for game k
RECURSIVE simulate_week(_, _, _)
simulate_week(sim_records, games, scores) ==
    IF games = <<>> THEN sim_records
    ELSE simulate_week(simulate_game(sim_records, Head(games), Head(scores)[1], Head(scores)[2]),
                       Tail(games), Tail(scores))

\* the values max(0, np.random.normal(proj, proj * variance_pct)) can take:
\* 0 for a projection of 0, otherwise 0 or more
SimScores == {0, 1, 2}

drawn_scores(proj) == IF proj = 0 THEN {0} ELSE SimScores

\* the score pairs a week's games can draw; two scores above 0 differ
week_scores(games, team_projections) ==
    {s \in [DOMAIN games -> SimScores \X SimScores] :
        \A k \in DOMAIN games :
           /\ s[k][1] \in drawn_scores(projection_of(team_projections, games[k][1].team))
           /\ s[k][2] \in drawn_scores(projection_of(team_projections, games[k][2].team))
           /\ s[k][1] = s[k][2] => s[k][1] = 0}

\* sorted(sim_records.items(), key=(wins, points_for), reverse=True): the
\* teams by descending key, equal keys in dict order
teams_sorted_of(sim_records, team_projections) ==
    LET n == Len(team_projections)
        rec(t) == sim_records[team_projections[t].team]
        above(u, t) == \/ rec(u).wins > rec(t).wins
                       \/ rec(u).wins = rec(t).wins /\ rec(u).points_for > rec(t).points_for
        same(u, t) == rec(u).wins = rec(t).wins /\ rec(u).points_for = rec(t).points_for
        place(t) == Cardinality({u \in 1..n : above(u, t) \/ (same(u, t) /\ u < t)}) + 1
    IN  [k \in 1..n |-> team_projections[CHOOSE t \in 1..n : place(t) = k].team]

\* [team for team, _ in teams_sorted[:playoff_teams]]
playoff_teams_list_of(teams_sorted, playoff_teams) ==
    SubSeq(teams_sorted, 1, IF playoff_teams < Len(teams_sorted) THEN playoff_teams
                            ELSE Len(teams_sorted))

\* mutant: every seed up to the configured number gets a bye
gets_bye_NoCap(seed, playoff_bye_teams) == seed <= playoff_bye_teams

\* seed <= min(2, playoff_bye_teams)
gets_bye(seed, playoff_bye_teams) ==
    seed <= (IF playoff_bye_teams < 2 THEN playoff_bye_teams ELSE 2)

seed_of(playoff_teams_list, team) ==
    CHOOSE i \in DOMAIN playoff_teams_list : playoff_teams_list[i] = team

\* simulation_results before the first trial
new_simulation_results(team_projections) ==
    [team \in projected_teams(team_projections) |->
        [playoff_count |-> 0, bye_count |-> 0, championship_count |-> 0,
         total_wins |-> 0, total_losses |-> 0, seeds |-> <<>>, points |-> <<>>]]

\* simulation_results after the seeding, the draw of the champion ("" when
\* nobody is seeded) and the totals of one trial
trial_results(simulation_results, sim_records, playoff_teams_list, playoff_bye_teams, champion) ==
    [team \in DOMAIN simulation_results |->
       LET seeded == \E i \in DOMAIN playoff_teams_list : playoff_teams_list[i] = team
           r == simulation_results[team]
       IN  [playoff_count |-> IF seeded THEN r.playoff_count + 1 ELSE r.playoff_count,
            seeds |-> IF seeded THEN Append(r.seeds, seed_of(playoff_teams_list, team))
                      ELSE r.seeds,
            points |-> IF seeded THEN Append(r.points, sim_records[team].points_for)
                       ELSE r.points,
            bye_count |-> IF seeded /\ gets_bye(seed_of(playoff_teams_list, team),
                                                playoff_bye_teams)
                          THEN r.bye_count + 1 ELSE r.bye_count,
            championship_count |-> IF team = champion THEN r.championship_count + 1
                                   ELSE r.championship_count,
            total_wins |-> r.total_wins + sim_records[team].wins,
            total_losses |-> r.total_losses + sim_records[team].losses]]

\* np.mean(x) if x else otherwise
mean_or(x, otherwise) == IF x = <<>> THEN <<otherwise, 1>> ELSE <<SumInts(x), Len(x)>>

\* one dict of results_data
result_row(team, team_records, simulation_results, team_projections, n_simulations) ==
    [Team |-> team,
     CurrentWins |-> team_records[team].wins,
     CurrentLosses |-> team_records[team].losses,
     ProjectedWins |-> <<simulation_results[team].total_wins, n_simulations>>,
     ProjectedLosses |-> <<simulation_results[team].total_losses, n_simulations>>,
     PlayoffPct |-> <<simulation_results[team].playoff_count * 100, n_simulations>>,
     ByePct |-> <<simulation_results[team].bye_count * 100, n_simulations>>,
     ChampionshipPct |-> <<simulation_results[team].championship_count * 100, n_simulations>>,
     AvgSeed |-> mean_or(simulation_results[team].seeds, 0),
     AvgPoints |-> mean_or(simulation_results[team].points, team_records[team].points_for),
     Projection |-> projection_of(team_projections, team)]

\* the orders sort_values('Playoff %', ascending=False) can leave the rows
\* in; the default sort is not stable, rows of equal Playoff % come in any
\* order
sorted_results(rows) ==
    {s \in [DOMAIN rows -> {rows[i] : i \in DOMAIN rows}] :
        /\ \A i \in DOMAIN rows : \E k \in DOMAIN s : s[k] = rows[i]
        /\ \A j \in DOMAIN s, k \in DOMAIN s :
              j < k => RLe(s[k].PlayoffPct, s[j].PlayoffPct)}

----------------------------------------------------------------------------
(* Specification SpecPlayoff: one call of run_playoff_simulation.          *)
(* ret.status is "start", "trial" inside the loop over the simulations,    *)
(* "simulated" after it, "returned" at the end; pc counts the trials done, *)
(* ret.week is the next week of remaining_weeks, and ret.last keeps the    *)
(* locals of the trial that ended last.                                    *)

MaxWeek == 2   \* the last week of the regular season, total_weeks
MaxSims == 2   \* largest n_simulations

LeagueTeams ==
    <<[roster_id |-> 1, team |-> "Ann"], [roster_id |-> 2, team |-> "Bob"],
      [roster_id |-> 3, team |-> "Cat"]>>

\* all_rosters_df holds the teams with players only; none, all three, or two
ProjectionLayouts ==
    {<<>>,
     <<[team |-> "Ann", projection |-> 100], [team |-> "Bob", projection |-> 90],
       [team |-> "Cat", projection |-> 0]>>,
     <<[team |-> "Bob", projection |-> 90], [team |-> "Ann", projection |-> 100]>>}

Entry(roster_id, matchup_id, points) ==
    [roster_id |-> roster_id, matchup_id |-> matchup_id, points |-> points]

\* the entries of a week: one matchup of two teams, the third team without
\* a matchup or alone in one
WeekData(week) ==
    CASE week % 3 = 1 -> <<Entry(1, 1, 10), Entry(2, 1, 7), Entry(3, 0, 4)>>
      [] week % 3 = 2 -> <<Entry(2, 1, 5), Entry(1, 2, 9), Entry(3, 1, 5)>>
      [] week % 3 = 0 -> <<Entry(3, 1, 3), Entry(1, 1, 8)>>

\* playoff_teams and playoff_seed_type of the league settings
PlayoffSettings ==
    {[playoff_teams |-> 0, playoff_bye_teams |-> 1],
     [playoff_teams |-> 1, playoff_bye_teams |-> 2],
     [playoff_teams |-> 2, playoff_bye_teams |-> 0],
     [playoff_teams |-> 2, playoff_bye_teams |-> 1],
     [playoff_teams |-> 6, playoff_bye_teams |-> 3]}

NoTrial == [sim_records |-> <<>>, teams_sorted |-> <<>>, playoff_teams_list |-> <<>>, champion |-> ""]

InitPlayoff ==
    /\ pc = 0
    /\ \E team_projections \in ProjectionLayouts, weeks \in SUBSET (1..MaxWeek),
          current_week \in 1..(MaxWeek + 1), n_simulations \in 1..MaxSims,
          settings \in PlayoffSettings :
          args = [team_projections |-> team_projections,
                  league_rosters |-> LeagueTeams,
                  all_matchups |-> [week \in weeks |-> WeekData(week)],
                  current_week |-> current_week,
                  n_simulations |-> n_simulations,
                  playoff_teams |-> settings.playoff_teams,
                  playoff_bye_teams |-> settings.playoff_bye_teams,
                  total_weeks |-> MaxWeek]
    /\ ret = [status |-> "start", team_records |-> <<>>, sim_records |-> <<>>, week |-> 0,
              simulation_results |-> <<>>, last |-> NoTrial, results |-> <<>>]

\* "if not all_rosters_df or not league_details: return pd.DataFrame()"
ReturnEmpty ==
    /\ ret.status = "start" /\ args.team_projections = <<>>
    /\ ret' = [ret EXCEPT !.status = "returned"]
    /\ UNCHANGED <<args, pc>>

\* the function down to the first line of the loop over the simulations
ProcessCompletedWeeks ==
    /\ ret.status = "start" /\ args.team_projections # <<>>
    /\ \E team_records \in {process_completed_weeks(new_team_records(args.team_projections),
                               1, args.current_week, args.all_matchups, args.league_rosters)} :
          ret' = [ret EXCEPT !.status = "trial",
                             !.team_records = team_records,
                             !.sim_records = copy_records(team_records),
                             !.week = args.current_week,
                             !.simulation_results =
                                 new_simulation_results(args.team_projections)]
    /\ UNCHANGED <<args, pc>>

\* a week of remaining_weeks that is in all_matchups
SimulateWeek ==
    /\ ret.status = "trial" /\ ret.week <= args.total_weeks
    /\ ret.week \in DOMAIN args.all_matchups
    /\ \E games \in {games_of(args.all_matchups[ret.week], args.league_rosters,
                              projected_teams(args.team_projections))} :
       \E scores \in week_scores(games, args.team_projections) :
          ret' = [ret EXCEPT !.sim_records = simulate_week(@, games, scores),
                             !.week = @ + 1]
    /\ UNCHANGED <<args, pc>>

\* a week of remaining_weeks that is not in all_matchups
SkipWeek ==
    /\ ret.status = "trial" /\ ret.week <= args.total_weeks
    /\ ret.week \notin DOMAIN args.all_matchups
    /\ ret' = [ret EXCEPT !.week = @ + 1]
    /\ UNCHANGED <<args, pc>>

\* the end of a trial: seeding, byes, champion, totals
EndTrial ==
    /\ ret.status = "trial" /\ ret.week > args.total_weeks
    /\ \E teams_sorted \in {teams_sorted_of(ret.sim_records, args.team_projections)} :
       \E playoff_teams_list \in {playoff_teams_list_of(teams_sorted, args.playoff_teams)} :
       \E champion \in IF playoff_teams_list = <<>> THEN {""}
                       ELSE {playoff_teams_list[i] : i \in DOMAIN playoff_teams_list} :
          ret' = [ret EXCEPT
                    !.simulation_results =
                        trial_results(@, ret.sim_records, playoff_teams_list,
                                      args.playoff_bye_teams, champion),
                    !.last = [sim_records |-> ret.sim_records,
                              teams_sorted |-> teams_sorted,
                              playoff_teams_list |-> playoff_teams_list,
                              champion |-> champion],
                    !.sim_records = copy_records(ret.team_records),
                    !.week = args.current_week,
                    !.status = IF pc + 1 < args.n_simulations THEN "trial" ELSE "simulated"]
    /\ pc' = pc + 1
    /\ UNCHANGED args

\* "Build results DataFrame", the sort and the return
BuildResults ==
    /\ ret.status = "simulated"
    /\ \E results_df \in sorted_results(
             [t \in DOMAIN args.team_projections |->
                 result_row(args.team_projections[t].team, ret.team_records,
                            ret.simulation_results, args.team_projections,
                            args.n_simulations)]) :
          ret' = [ret EXCEPT !.status = "returned", !.results = results_df]
    /\ UNCHANGED <<args, pc>>

NextPlayoff ==
    ReturnEmpty \/ ProcessCompletedWeeks \/ SimulateWeek \/ SkipWeek \/ EndTrial \/ BuildResults

SpecPlayoff == InitPlayoff /\ [][NextPlayoff]_vars

PlayoffTeams == {args.team_projections[t].team : t \in DOMAIN args.team_projections}

\* min(playoff_teams, number of teams)
FieldSize ==
    IF args.playoff_teams < Len(args.team_projections) THEN args.playoff_teams
    ELSE Len(args.team_projections)

\* team a's (wins, points-for) is not below team b's in the last trial
NotBelow(a, b) ==
    \/ ret.last.sim_records[a].wins > ret.last.sim_records[b].wins
    \/ /\ ret.last.sim_records[a].wins = ret.last.sim_records[b].wins
       /\ ret.last.sim_records[a].points_for >= ret.last.sim_records[b].points_for

RECURSIVE SumOver(_, _)
SumOver(f, S) ==
    IF S = {} THEN 0 ELSE LET x == CHOOSE x \in S : TRUE IN f[x] + SumOver(f, S \ {x})

WeeksWithData(from, to) == {week \in from..to : week \in DOMAIN args.all_matchups}

\* the real records the weeks before current_week with data add up to
RECURSIVE RecordsOfWeeks(_, _)
RecordsOfWeeks(team_records, weeks) ==
    IF weeks = {} THEN team_records
    ELSE LET week == CHOOSE w \in weeks : \A v \in weeks : w <= v
         IN  RecordsOfWeeks(record_week(team_records,
                                games_of(args.all_matchups[week], args.league_rosters,
                                         PlayoffTeams)),
                            weeks \ {week})

\* the games a team has in the weeks from current_week on that have data
GamesToSimulate(team) ==
    Cardinality({week \in WeeksWithData(args.current_week, args.total_weeks) :
        \E k \in DOMAIN games_of(args.all_matchups[week], args.league_rosters, PlayoffTeams) :
           \E e \in 1..2 :
              games_of(args.all_matchups[week], args.league_rosters, PlayoffTeams)[k][e].team
                 = team})

\* C17: the real records are those of all weeks before current_week that
\* have data, each counted once; every later week with data is simulated
\* once per trial; a week without data blocks no other week.
C17_EveryWeekWithDataOnce ==
    (ret.status # "start" /\ args.team_projections # <<>>) =>
       /\ ret.team_records
             = RecordsOfWeeks(new_team_records(args.team_projections),
                              WeeksWithData(1, args.current_week - 1))
       /\ pc >= 1 =>
             \A team \in PlayoffTeams :
                (ret.last.sim_records[team].wins + ret.last.sim_records[team].losses)
                   - (ret.team_records[team].wins + ret.team_records[team].losses)
                   = GamesToSimulate(team)

\* the sum of one field of the records over all teams
FieldTotal(records, field) ==
    SumOver([team \in PlayoffTeams |-> records[team][field]], PlayoffTeams)

\* what a step added to one field of a team's simulated record
Added(team, field) == ret.sim_records'[team][field] - ret.sim_records[team][field]

\* a step that simulates the week ret.week of a trial
WeekSimulated ==
    /\ ret.status = "trial" /\ ret.week <= args.total_weeks
    /\ ret.week \in DOMAIN args.all_matchups
    /\ ret'.week = ret.week + 1

\* one simulated week: each of its matchups adds one win and one loss, the
\* win to the first-listed team when it scored more and to the second-listed
\* team otherwise; a team without a matchup keeps its record
OneWinOneLoss ==
    LET games == games_of(args.all_matchups[ret.week], args.league_rosters, PlayoffTeams)
        playing == {games[k][e].team : k \in DOMAIN games, e \in 1..2}
    IN  /\ \A k \in DOMAIN games :
             LET team1 == games[k][1].team
                 team2 == games[k][2].team
             IN  /\ Added(team1, "wins") + Added(team2, "wins") = 1
                 /\ Added(team1, "losses") + Added(team2, "losses") = 1
                 /\ Added(team1, "wins") + Added(team1, "losses") = 1
                 /\ Added(team2, "wins") + Added(team2, "losses") = 1
                 /\ Added(team1, "wins") = 1
                       <=> Added(team1, "points_for") > Added(team2, "points_for")
         /\ \A team \in PlayoffTeams \ playing :
               Added(team, "wins") = 0 /\ Added(team, "losses") = 0

\* the records of a trial: as many wins as losses over all teams
Balanced(records) == FieldTotal(records, "wins") = FieldTotal(records, "losses")

\* C29: every simulated matchup adds exactly one win and one loss, equal
\* scores giving the win to the second-listed team; during and at the end
\* of every trial the wins of all teams sum to their losses, and each
\* team's wins + losses are its real wins + losses plus the number of its
\* simulated matchups.
C29_OneWinOneLossPerMatchup ==
    /\ [][WeekSimulated => OneWinOneLoss]_vars
    /\ [](ret.status = "trial" => Balanced(ret.sim_records))
    /\ []((pc >= 1 /\ args.team_projections # <<>>) =>
            /\ Balanced(ret.last.sim_records)
            /\ \A team \in PlayoffTeams :
                  ret.last.sim_records[team].wins + ret.last.sim_records[team].losses
                     = ret.team_records[team].wins + ret.team_records[team].losses
                          + GamesToSimulate(team))

\* week 2 is simulated: Bob, listed first, and Cat both score 0 and the win
\* goes to Cat
C29_Witness ==
    /\ pc >= 1 /\ args.current_week = 2 /\ 2 \in DOMAIN args.all_matchups
    /\ Len(args.team_projections) = 3
    /\ ret.last.sim_records["Bob"].points_for = ret.team_records["Bob"].points_for
    /\ ret.last.sim_records["Cat"].points_for = ret.team_records["Cat"].points_for
    /\ ret.last.sim_records["Cat"].wins = ret.team_records["Cat"].wins + 1
    /\ ret.last.sim_records["Bob"].losses = ret.team_records["Bob"].losses + 1

----------------------------------------------------------------------------
(* calculate_power_rankings.  A dict is a function on its keys, and        *)
(* all_rosters_df enters as the sequence of its keys; the floats of the    *)
(* function are rationals in lowest terms.                                 *)

RECURSIVE GCD(_, _)
GCD(a, b) == IF b = 0 THEN a ELSE GCD(b, a % b)

\* a rational in lowest terms
RReduce(a) ==
    LET n == IF a[1] < 0 THEN 0 - a[1] ELSE a[1]
        g == GCD(n, a[2])
    IN  IF g = 0 THEN a ELSE <<a[1] \div g, a[2] \div g>>

RSum(a, b) == RReduce(RAdd(RReduce(a), RReduce(b)))
RTimes(a, b) == RReduce(RMul(RReduce(a), RReduce(b)))

\* d.get(key, default)
get(d, key, default) == IF key \in DOMAIN d THEN d[key] ELSE default

\* max(d.values()) of a dict of numbers that is not empty
max_value(d) == CHOOSE v \in {d[k] : k \in DOMAIN d} : \A k \in DOMAIN d : d[k] <= v

\* recent_performance.get(team, {}) with the defaults of the three .get calls
recent_perf_of(recent_performance, team) ==
    get(recent_performance, team, [recent_points |-> 0, recent_wins |-> 0, recent_games |-> 1])

\* recent_points * 0.6 + recent_win_pct * 0.4
recent_score_of(recent_perf) ==
    LET recent_win_pct == IF recent_perf.recent_games > 0
                          THEN <<recent_perf.recent_wins * 100, recent_perf.recent_games>>
                          ELSE <<0, 1>>
    IN  RSum(RTimes(<<recent_perf.recent_points, 1>>, <<6, 10>>),
             RTimes(recent_win_pct, <<4, 10>>))

\* sos.get('sos_rank', len(all_rosters_df) / 2)
sos_rank_of(sos_data, team, num_teams) ==
    IF team \in DOMAIN sos_data THEN <<sos_data[team].sos_rank, 1>> ELSE <<num_teams, 2>>

\* ((num_teams - sos_rank + 1) / num_teams) * 100
sos_score_of(sos_rank, num_teams) ==
    RTimes(RSum(<<num_teams + 1, 1>>, RNeg(sos_rank)), <<100, num_teams>>)

\* (roster_value / max_roster_value) * 100 if max_roster_value > 0 else 0
normalized_roster_of(roster_value, team_projections) ==
    LET max_roster_value == IF DOMAIN team_projections # {} THEN max_value(team_projections)
                            ELSE 1
    IN  IF max_roster_value > 0 THEN RReduce(<<roster_value * 100, max_roster_value>>)
        ELSE <<0, 1>>

\* (recent_score / max_recent) * 100 if max_recent > 0 else 0
normalized_recent_of(recent_score, recent_performance) ==
    LET max_recent == IF DOMAIN recent_performance # {}
                      THEN max_value([k \in DOMAIN recent_performance |->
                                         recent_performance[k].recent_points])
                      ELSE 1
    IN  IF max_recent > 0 THEN RTimes(recent_score, <<100, max_recent>>)
        ELSE <<0, 1>>

\* playoff_pct * 0.7 + championship_pct * 0.3
playoff_score_of(playoff_odds, team) ==
    LET row == get(playoff_odds, team, [playoff |-> 0, championship |-> 0])
    IN  RReduce(<<row.playoff * 7 + row.championship * 3, 10>>)

\* one pass of the loop over the teams: the dict appended to power_scores,
\* with the three normalized figures that enter its Power Score
power_entry(team, num_teams, playoff_odds, recent_performance, team_projections, sos_data) ==
    LET roster_value == get(team_projections, team, 0)
        recent_perf == recent_perf_of(recent_performance, team)
        sos_rank == sos_rank_of(sos_data, team, num_teams)
        sos_score == sos_score_of(sos_rank, num_teams)
        normalized_roster == normalized_roster_of(roster_value, team_projections)
        normalized_recent == normalized_recent_of(recent_score_of(recent_perf),
                                                  recent_performance)
    IN  [Team |-> team,
         PowerScore |-> RSum(RSum(RTimes(normalized_roster, <<40, 100>>),
                                  RTimes(playoff_score_of(playoff_odds, team), <<30, 100>>)),
                             RSum(RTimes(normalized_recent, <<20, 100>>),
                                  RTimes(sos_score, <<10, 100>>))),
         RosterValue |-> roster_value,
         RecentPPG |-> recent_perf.recent_points,
         SOSRank |-> sos_rank,
         normalized_roster |-> normalized_roster,
         normalized_recent |-> normalized_recent,
         sos_score |-> sos_score]

\* power_scores after the loop
power_scores_of(teams, playoff_odds, recent_performance, team_projections, sos_data) ==
    [t \in DOMAIN teams |->
        power_entry(teams[t], Len(teams), playoff_odds, recent_performance,
                    team_projections, sos_data)]

\* the orders sort_values('Power Score', ascending=False) can leave the
\* rows in, each row with its Rank
ranked(power_scores) ==
    {[k \in DOMAIN power_scores |->
         [Rank |-> k, Team |-> power_scores[s[k]].Team,
          PowerScore |-> power_scores[s[k]].PowerScore]] :
       s \in {p \in [DOMAIN power_scores -> DOMAIN power_scores] :
                 /\ \A i \in DOMAIN power_scores : \E k \in DOMAIN power_scores : p[k] = i
                 /\ \A j \in DOMAIN power_scores, k \in DOMAIN power_scores :
                       j < k => RLe(power_scores[p[k]].PowerScore,
                                    power_scores[p[j]].PowerScore)}}

----------------------------------------------------------------------------
(* Specification SpecPower: one call of calculate_power_rankings.          *)

MaxRanked == 2   \* largest number of teams in all_rosters_df

RankedNames == <<"Ann", "Bob", "Cat", "Dan">>

\* projected points of a roster
ProjectionValues == {0, 900, 1200}

\* what calculate_recent_performance reports for a team: no game, two wins
\* of two at 90 a game, one win of two at 120 a game
RecentForms ==
    {[recent_points |-> 0, recent_wins |-> 0, recent_games |-> 0],
     [recent_points |-> 90, recent_wins |-> 2, recent_games |-> 2],
     [recent_points |-> 120, recent_wins |-> 1, recent_games |-> 2]}

\* the dicts with keys among the teams and values in V
Dicts(names, V) == UNION {[S -> V] : S \in SUBSET names}

InitPower ==
    /\ pc = 0
    /\ \E n \in 1..MaxRanked, ranked_by_sos \in BOOLEAN :
       \E team_projections \in Dicts({RankedNames[t] : t \in 1..n}, ProjectionValues),
          recent_performance \in Dicts({RankedNames[t] : t \in 1..n}, RecentForms) :
          args = [teams |-> SubSeq(RankedNames, 1, n),
                  team_projections |-> team_projections,
                  recent_performance |-> recent_performance,
                  playoff_odds |-> [team \in {"Ann"} |-> [playoff |-> 100, championship |-> 50]],
                  sos_data |-> IF ranked_by_sos
                               THEN [team \in {RankedNames[t] : t \in 1..n} |->
                                        [sos_rank |-> CHOOSE t \in 1..n : RankedNames[t] = team]]
                               ELSE [team \in {} |-> [sos_rank |-> 0]]]
    /\ ret = [power_scores |-> <<>>, df |-> <<>>]

CalculatePowerRankings ==
    /\ pc = 0
    /\ \E power_scores \in {power_scores_of(args.teams, args.playoff_odds,
                                args.recent_performance, args.team_projections,
                                args.sos_data)} :
       \E df \in ranked(power_scores) :
          ret' = [power_scores |-> power_scores, df |-> df]
    /\ pc' = 1
    /\ UNCHANGED args

NextPower == CalculatePowerRankings

SpecPower == InitPower /\ [][NextPower]_vars

\* C19: for non-negative inputs the normalized roster value and the
\* normalized recent performance of every team lie between 0 and 100, and
\* the schedule-ease score is (numTeams - sosRank + 1) / numTeams * 100.
C19_NormalizedWithinScale ==
    pc = 1 =>
       \A t \in DOMAIN ret.power_scores :
          /\ RLe(<<0, 1>>, ret.power_scores[t].normalized_roster)
          /\ RLe(ret.power_scores[t].normalized_roster, <<100, 1>>)
          /\ RLe(<<0, 1>>, ret.power_scores[t].normalized_recent)
          /\ RLe(ret.power_scores[t].normalized_recent, <<100, 1>>)
          /\ REq(ret.power_scores[t].sos_score,
                 <<(Len(args.teams) * ret.power_scores[t].SOSRank[2]
                      - ret.power_scores[t].SOSRank[1] + ret.power_scores[t].SOSRank[2]) * 100,
                   Len(args.teams) * ret.power_scores[t].SOSRank[2]>>)

----------------------------------------------------------------------------
(* track_power_rankings_history.  st.session_state['power_rankings_history'] *)
(* is the sequence ret.history of rows [Week, Team, Rank, PowerScore];     *)
(* args is the list of the calls made so far, each with its current_week   *)
(* and its current_rankings.                                               *)

\* current_snapshot: one row per row of current_rankings
current_snapshot_of(current_rankings, current_week) ==
    [r \in DOMAIN current_rankings |->
        [Week |-> current_week,
         Team |-> current_rankings[r].Team,
         Rank |-> current_rankings[r].Rank,
         PowerScore |-> current_rankings[r].PowerScore]]

\* mutant: the rows already stored for the week are kept
track_power_rankings_history_KeepOld(history, current_rankings, current_week) ==
    history \o current_snapshot_of(current_rankings, current_week)

\* the list stored back into the session state
track_power_rankings_history(history, current_rankings, current_week) ==
    LET existing_week == {i \in DOMAIN history : history[i].Week = current_week}
    IN  (IF existing_week # {}
         THEN SelectSeq(history, LAMBDA item : item.Week # current_week)
         ELSE history)
          \o current_snapshot_of(current_rankings, current_week)

\* the first stored row of a team in prev_data, <<>> when it has none
prev_row_of(prev_data, team) ==
    SelectSeq(prev_data, LAMBDA item : item.Team = team)

\* rankings_with_change: current_rankings with the two delta columns
calculate_rank_change(current_rankings, history_df, current_week) ==
    LET prev_data == SelectSeq(history_df, LAMBDA item : item.Week = current_week - 1)
        compared == history_df # <<>> /\ current_week > 1 /\ prev_data # <<>>
    IN  [r \in DOMAIN current_rankings |->
           LET row == current_rankings[r]
               prev_row == prev_row_of(prev_data, row.Team)
           IN  [Team |-> row.Team, Rank |-> row.Rank, PowerScore |-> row.PowerScore,
                DeltaRank |-> IF compared /\ Len(prev_row) > 0
                              THEN prev_row[1].Rank - row.Rank ELSE 0,
                DeltaScore |-> IF compared /\ Len(prev_row) > 0
                               THEN row.PowerScore - prev_row[1].PowerScore ELSE 0]]

----------------------------------------------------------------------------
(* Specification SpecHistory: the composite computed for any weeks in any  *)
(* order, each time track_power_rankings_history followed by               *)
(* calculate_rank_change on the history it returns.                        *)

MaxCalls == 3   \* largest number of calls

HistoryWeeks == {1, 2, 3}

RankingRow(team, rank, score) == [Team |-> team, Rank |-> rank, PowerScore |-> score]

\* the rankings a call can bring: none, one team, two teams either way
RankingInputs ==
    {<<>>,
     <<RankingRow("Ann", 1, 70)>>,
     <<RankingRow("Ann", 1, 80), RankingRow("Bob", 2, 60)>>,
     <<RankingRow("Bob", 1, 90), RankingRow("Ann", 2, 50)>>}

InitHistory ==
    /\ pc = 0
    /\ args = <<>>
    /\ ret = [history |-> <<>>, history_df |-> <<>>, power_rankings_df |-> <<>>]

TrackHistory ==
    /\ pc < MaxCalls
    /\ \E current_week \in HistoryWeeks, current_rankings \in RankingInputs :
       \E history \in {track_power_rankings_history(ret.history, current_rankings,
                                                    current_week)} :
          /\ ret' = [history |-> history, history_df |-> history,
                     power_rankings_df |->
                         calculate_rank_change(current_rankings, history, current_week)]
          /\ args' = Append(args, [current_week |-> current_week,
                                   current_rankings |-> current_rankings])
    /\ pc' = pc + 1

NextHistory == TrackHistory

SpecHistory == InitHistory /\ [][NextHistory]_vars

\* the calls made for a week
CallsFor(week) == {c \in DOMAIN args : args[c].current_week = week}

\* the most recent call for a week
LastCallFor(week) == CHOOSE c \in CallsFor(week) : \A d \in CallsFor(week) : d <= c

\* the stored rows of a week, in their stored order
StoredRows(week) == SelectSeq(ret.history, LAMBDA item : item.Week = week)

\* C20: after any sequence of calls the history holds for each week ever
\* written exactly the rows of the most recent call for that week, one per
\* team of that call and no (week, team) twice; weeks never written have
\* no rows.
C20_LastWriterWins ==
    /\ \A week \in HistoryWeeks :
          StoredRows(week) =
             IF CallsFor(week) = {} THEN <<>>
             ELSE current_snapshot_of(args[LastCallFor(week)].current_rankings, week)
    /\ \A i \in DOMAIN ret.history : ret.history[i].Week \in HistoryWeeks
    /\ \A i \in DOMAIN ret.history, j \in DOMAIN ret.history :
          (i # j /\ ret.history[i].Week = ret.history[j].Week)
             => ret.history[i].Team # ret.history[j].Team

\* week 1 written, then week 2, then week 1 again with other rankings: the
\* history holds week 2 followed by the second snapshot of week 1
C20_Witness ==
    /\ pc = 3
    /\ args[1].current_week = 1 /\ args[2].current_week = 2 /\ args[3].current_week = 1
    /\ Len(args[1].current_rankings) = 2 /\ Len(args[2].current_rankings) = 2
    /\ Len(args[3].current_rankings) = 2
    /\ args[3].current_rankings # args[1].current_rankings
    /\ Len(ret.history) = 4
    /\ ret.history[1].Week = 2 /\ ret.history[3].Week = 1
    /\ ret.history[3].Team = args[3].current_rankings[1].Team

\* the week of the latest composite
LatestWeek == args[pc].current_week

\* the earlier weeks that have a stored snapshot
EarlierStored == {week \in HistoryWeeks : week < LatestWeek /\ StoredRows(week) # <<>>}

\* the snapshot of the latest stored earlier week
PreviousSnapshot == StoredRows(CHOOSE week \in EarlierStored : \A v \in EarlierStored : v <= week)

\* C21: with a snapshot of an earlier week stored, every team of the latest
\* such snapshot gets rank delta = previous rank - current rank and score
\* delta = current score - previous score; the deltas are 0 for week 1,
\* for a team absent from that snapshot and when no earlier week is stored.
C21_DeltasAgainstLatestEarlierWeek ==
    pc >= 1 =>
       \A r \in DOMAIN ret.power_rankings_df :
          LET row == ret.power_rankings_df[r]
              prev == IF EarlierStored = {} THEN <<>>
                      ELSE SelectSeq(PreviousSnapshot, LAMBDA item : item.Team = row.Team)
          IN  /\ row.DeltaRank = IF prev = <<>> THEN 0 ELSE prev[1].Rank - row.Rank
              /\ row.DeltaScore = IF prev = <<>> THEN 0 ELSE row.PowerScore - prev[1].PowerScore

\* the trials of the current run in which the user's team finished first
FirstPlaces == {i \in DOMAIN ret.run.finish_positions : ret.run.finish_positions[i] = 1}

\* lower bound <= upper bound in a returned dict
IntervalOrdered(sim) == sim.confidence_interval[1] <= sim.confidence_interval[2]

\* C28: after any number of trials championship count <= playoff count <=
\* trial count, a title being counted only in a trial that ended within
\* the top max(4, numTeams div 2); every finish position is in 1..numTeams;
\* a first place always counts as a title; the reported interval has its
\* lower bound at or below its upper bound.
C28_MonteCarloCounts ==
    /\ ret.status \in {"before", "after"} =>
          /\ ret.run.championship_count <= ret.run.playoff_count
          /\ ret.run.playoff_count <= pc
          /\ Len(ret.run.finish_positions) = pc
          /\ ret.run.playoff_spots
                = (IF Len(args.league_rosters) \div 2 > 4 THEN Len(args.league_rosters) \div 2
                   ELSE 4)
          /\ ret.run.playoff_count
                = Cardinality({i \in 1..pc : ret.run.finish_positions[i] <= ret.run.playoff_spots})
          /\ \A i \in 1..pc : ret.run.finish_positions[i] \in 1..Len(args.league_rosters)
          /\ Cardinality(FirstPlaces) <= ret.run.championship_count
    /\ ret.before_sim # <<>> => IntervalOrdered(ret.before_sim)
    /\ ret.status = "returned" => IntervalOrdered(ret.result.after)

\* a league of five after the trade: the team ends last, outside the four
\* playoff spots, then first, which counts as the one title
C28_Witness ==
    /\ ret.status = "after" /\ pc = 2 /\ Len(args.league_rosters) = 5
    /\ ret.run.finish_positions = <<5, 1>>
    /\ ret.run.playoff_count = 1 /\ ret.run.championship_count = 1

----------------------------------------------------------------------------
(* calculate_team_projected_points.  league_details enters as its truth    *)
(* value and its roster_positions; the result is a rational, the sum of    *)
(* the counted values over 17.                                             *)

\* the rows a slot of the given name chooses from
slot_players(roster_df, position) ==
    IF position = "FLEX"
    THEN SelectSeq(roster_df, LAMBDA row : row.Position \in {"RB", "WR", "TE"})
    ELSE IF position = "SUPER_FLEX"
    THEN SelectSeq(roster_df, LAMBDA row : row.Position \in {"QB", "RB", "WR", "TE"})
    ELSE RowsAt(roster_df, position)

\* position_counts: the number of slots of every name but 'BN'
position_counts_of(roster_positions) ==
    [position \in {roster_positions[i] : i \in DOMAIN roster_positions} \ {"BN"} |->
        Cardinality({i \in DOMAIN roster_positions : roster_positions[i] = position})]

\* 17 times what the loop over position_counts.items() adds to weekly_value
\* for the given positions
RECURSIVE starters_value(_, _, _)
starters_value(roster_df, position_counts, positions) ==
    IF positions = {} THEN 0
    ELSE LET position == CHOOSE p \in positions : TRUE
         IN  SumAdjustedValue(nlargest(position_counts[position],
                                       slot_players(roster_df, position)))
               + starters_value(roster_df, position_counts, positions \ {position})

calculate_team_projected_points(roster_df, league_details, roster_positions, starters_only) ==
    IF roster_df = <<>> THEN <<0, 1>>
    ELSE IF starters_only /\ league_details
    THEN LET position_counts == position_counts_of(roster_positions)
             weekly_value == starters_value(roster_df, position_counts, DOMAIN position_counts)
         IN  <<IF weekly_value > 0 THEN weekly_value ELSE 0, 17>>
    ELSE <<SumAdjustedValue(roster_df), 17>>

----------------------------------------------------------------------------
(* Specification SpecProjected: one call of                                *)
(* calculate_team_projected_points; pc is 1 after the return.              *)

MaxRoster == 3   \* largest number of rows of roster_df
MaxSlots == 3    \* largest number of entries of roster_positions

ProjectedRows == [Position : {"QB", "RB"}, AdjustedValue : {0, 1700}]

SlotNames == {"RB", "FLEX", "SUPER_FLEX", "BN"}

InitProjected ==
    /\ pc = 0
    /\ \E roster_df \in UNION {[1..n -> ProjectedRows] : n \in 0..MaxRoster},
          roster_positions \in UNION {[1..n -> SlotNames] : n \in 0..MaxSlots},
          league_details \in BOOLEAN, starters_only \in BOOLEAN :
          args = [roster_df |-> roster_df, league_details |-> league_details,
                  roster_positions |-> IF league_details THEN roster_positions ELSE <<>>,
                  starters_only |-> starters_only]
    /\ ret = <<>>

\* "if roster_df.empty: return 0.0"
ProjectEmpty ==
    /\ pc = 0 /\ args.roster_df = <<>>
    /\ ret' = calculate_team_projected_points(args.roster_df, args.league_details,
                                              args.roster_positions, args.starters_only)
    /\ pc' = 1
    /\ UNCHANGED args

\* the call for a roster with rows
ProjectRoster ==
    /\ pc = 0 /\ args.roster_df # <<>>
    /\ ret' = calculate_team_projected_points(args.roster_df, args.league_details,
                                              args.roster_positions, args.starters_only)
    /\ pc' = 1
    /\ UNCHANGED args

NextProjected == ProjectEmpty \/ ProjectRoster

SpecProjected == InitProjected /\ [][NextProjected]_vars

\* C30: no player is counted twice, so with values of 0 or more the
\* projection is at most the total value of the roster over 17; an empty
\* roster projects 0.
C30_EachPlayerCountedOnce ==
    pc = 1 =>
       /\ RLe(ret, <<SumAdjustedValue(args.roster_df), 17>>)
       /\ args.roster_df = <<>> => ret[1] = 0

====
